---- MODULE Spec2Model ----
(***************************************************************************)
(* Rental lifecycle of the aquahome backend: orders, payments,             *)
(* subscriptions, service requests and notifications, as the gin handlers  *)
(* in controllers/ read and write them through GORM.                       *)
(*                                                                         *)
(* Every table is a sequence of rows; a row's primary key is its index.    *)
(* A handler that issues several database statements is a sequence of      *)
(* steps: what it reads outside (or before the first write of) its         *)
(* transaction is kept in its call record, and the writes of one           *)
(* transaction are applied together when it commits, or not at all when a  *)
(* statement fails and the handler rolls back.                             *)
(***************************************************************************)
EXTENDS Integers, Sequences, FiniteSets, TLC

VARIABLES orders, payments, subs, notifs, srs, calls, resp, nops, now, workers,
          products

vars == <<orders, payments, subs, notifs, srs, calls, resp, nops, now, workers,
          products>>

db == <<orders, payments, subs, notifs, srs>>

(***************************************************************************)
(* Bounds of the model.                                                    *)
(***************************************************************************)
\* requests served in one behaviour when they may overlap
MaxOps == 3

\* requests served in one behaviour when they are served one after another
MaxSeqOps == 4

MaxOrders == 2

MaxTicks == 1

(***************************************************************************)
(* Status and role constants (database/models.go).                         *)
(***************************************************************************)
OrderStatusPending == "pending"

OrderStatusApproved == "approved"

OrderStatusRejected == "rejected"

OrderStatusInTransit == "in_transit"

OrderStatusDelivered == "delivered"

OrderStatusInstalled == "installed"

OrderStatusCancelled == "cancelled"

OrderStatusCompleted == "completed"

SubscriptionStatusActive == "active"

SubscriptionStatusPaused == "paused"

SubscriptionStatusCancelled == "cancelled"

SubscriptionStatusExpired == "expired"

ServiceStatusPending == "pending"

ServiceStatusAssigned == "assigned"

ServiceStatusScheduled == "scheduled"

ServiceStatusInProgress == "in_progress"

ServiceStatusCompleted == "completed"

ServiceStatusCancelled == "cancelled"

PaymentStatusPending == "pending"

PaymentStatusSuccess == "success"

RoleAdmin == "admin"

RoleFranchiseOwner == "franchise_owner"

RoleServiceAgent == "service_agent"

RoleCustomer == "customer"

(***************************************************************************)
(* Rows that no handler of the lifecycle changes: users, franchises and    *)
(* products.  A key outside the domain is a row that does not exist.       *)
(***************************************************************************)
Users ==
  << [role |-> RoleAdmin,          franchise |-> 0],
     [role |-> RoleFranchiseOwner, franchise |-> 0],
     [role |-> RoleFranchiseOwner, franchise |-> 0],
     [role |-> RoleCustomer,       franchise |-> 0],
     [role |-> RoleCustomer,       franchise |-> 0],
     [role |-> RoleServiceAgent,   franchise |-> 1],
     [role |-> RoleServiceAgent,   franchise |-> 2] >>

Franchises ==
  << [owner |-> 2, active |-> TRUE],
     [owner |-> 3, active |-> TRUE],
     [owner |-> 3, active |-> FALSE] >>

Products ==
  << [monthlyRent |-> 50, securityDeposit |-> 20, installationFee |-> 10, active |-> TRUE],
     [monthlyRent |-> 30, securityDeposit |-> 15, installationFee |-> 5,  active |-> FALSE] >>

RazorpaySecret == "169NdofVMND0u1o8yTWsgx47"

(***************************************************************************)
(* time.Time at day precision.  A date is the number of days since         *)
(* 1 January of the model's first year; the years of the model have 365    *)
(* days (no 29 February falls inside the horizon).                         *)
(***************************************************************************)
CumDays == <<0, 31, 59, 90, 120, 151, 181, 212, 243, 273, 304, 334>>

YearOf(t) == t \div 365

MonthOf(t) ==
  CHOOSE m \in 1..12 :
    /\ CumDays[m] <= t % 365
    /\ (m = 12 \/ t % 365 < CumDays[m + 1])

DayOf(t) == (t % 365) - CumDays[MonthOf(t)] + 1

\* time.Date: a month or a day out of range is normalised into the next ones
Date(y, m, d) ==
  (y + ((m - 1) \div 12)) * 365 + CumDays[((m - 1) % 12) + 1] + (d - 1)

AddDate(t, years, months, days) ==
  Date(YearOf(t) + years, MonthOf(t) + months, DayOf(t) + days)

\* time.Now().Format("20060102")
FormatYYYYMMDD(t) == <<YearOf(t), MonthOf(t), DayOf(t)>>

\* 31 January: one month later is 31 February, which time.Date normalises
\* to 3 March, while one month after 1 February is 1 March
StartDay == 30

(***************************************************************************)
(* Helpers on tables.                                                      *)
(***************************************************************************)
Exists(table, id) == id \in DOMAIN table

Rows(table, P(_)) == {i \in DOMAIN table : P(table[i])}

SubsOfOrder(S, o) == {i \in DOMAIN S : S[i].order = o}

NoResp == [id |-> 0, op |-> "none", actor |-> 0, result |-> "none"]

\* the response of the request that finished last: who asked, the kind of
\* the answer, and what the handler puts in the body
Respond(id, op, actor, result, extra) ==
  [id |-> id, op |-> op, actor |-> actor, result |-> result] @@ extra

\* the request c is answered in this step
Answered(c) == c \in calls /\ resp'.id = c.id

Notification(user, title, message, ntype, relatedID, relatedType) ==
  [user |-> user, title |-> title, message |-> message, type |-> ntype,
   relatedID |-> relatedID, relatedType |-> relatedType]

(***************************************************************************)
(* Init: the migrated, seeded database with no order placed yet.           *)
(***************************************************************************)
Init ==
  /\ orders = <<>>
  /\ payments = <<>>
  /\ subs = <<>>
  /\ notifs = <<>>
  /\ srs = <<>>
  /\ calls = {}
  /\ resp = NoResp
  /\ nops = 0
  /\ now = StartDay
  /\ workers = MaxOps
  /\ products = Products

\* gin serves every request on its own goroutine; with one worker the
\* requests are served one after another
CanStart ==
  /\ Cardinality(calls) < workers
  /\ nops < (IF workers = 1 THEN MaxSeqOps ELSE MaxOps)

\* the clock moves on between statements
Tick ==
  /\ now < StartDay + MaxTicks
  /\ now' = now + 1
  /\ UNCHANGED <<orders, payments, subs, notifs, srs, calls, resp, nops, workers, products>>

(***************************************************************************)
(* order_controller.go                                                     *)
(***************************************************************************)
generateInvoiceNumber(orderID, t) == <<"INV-", FormatYYYYMMDD(t), orderID>>

CreateOrderActors == {1, 4}

CreateOrderProducts == {1, 2, 3}

CreateOrderFranchises == {1, 3, 4}

RentalDurations == {2}

CreateOrderFailures == {"none", "order", "payment", "notification", "commit"}

totalInitialAmount(product) ==
  product.securityDeposit + product.installationFee + product.monthlyRent

\* the total leaves the first month's rent out
NewOrder_DepositOnly(customerID, req, product, t) ==
  [customer |-> customerID, product |-> req.productID, franchise |-> req.franchiseID,
   agent |-> 0, status |-> OrderStatusPending, rentalStart |-> t,
   rentalDuration |-> req.rentalDuration, monthlyRent |-> product.monthlyRent,
   securityDeposit |-> product.securityDeposit,
   installationFee |-> product.installationFee,
   total |-> product.securityDeposit + product.installationFee, notes |-> req.notes]

NewOrder(customerID, req, product, t) ==
  [customer |-> customerID, product |-> req.productID, franchise |-> req.franchiseID,
   agent |-> 0, status |-> OrderStatusPending, rentalStart |-> t,
   rentalDuration |-> req.rentalDuration, monthlyRent |-> product.monthlyRent,
   securityDeposit |-> product.securityDeposit,
   installationFee |-> product.installationFee,
   total |-> totalInitialAmount(product), notes |-> req.notes]

InitialPayment(customerID, orderID, amount, t) ==
  [customer |-> customerID, order |-> orderID, sub |-> 0, amount |-> amount,
   ptype |-> "initial", status |-> PaymentStatusPending,
   invoice |-> generateInvoiceNumber(orderID, t), method |-> "",
   txn |-> "", details |-> <<>>]

CreateOrderResult(actor, req, fail) ==
  IF Users[actor].role # RoleCustomer THEN "PermissionDenied"
  ELSE IF ~Exists(products, req.productID) THEN "NotFound"
  ELSE IF ~products[req.productID].active THEN "InvalidState"
  ELSE IF ~Exists(Franchises, req.franchiseID) THEN "NotFound"
  ELSE IF ~Franchises[req.franchiseID].active THEN "InvalidState"
  ELSE IF fail # "none" THEN "ServerError"
  ELSE "ok"

\* a failing notification insert leaves the order and its payment behind
CreateOrder_NoRollback(actor, req, fail) ==
  /\ CanStart
  /\ Len(orders) < MaxOrders
  /\ nops' = nops + 1
  /\ LET result == CreateOrderResult(actor, req, fail)
         orderID == Len(orders) + 1
         order == NewOrder(actor, req, products[req.productID], now)
     IN /\ resp' = Respond(nops + 1, "CreateOrder", actor, result, [order |-> orderID])
        /\ IF result = "ok" \/ (result = "ServerError" /\ fail = "notification")
           THEN /\ orders' = Append(orders, order)
                /\ payments' = Append(payments,
                                 InitialPayment(actor, orderID, order.total, now))
                /\ notifs' = IF result = "ok"
                             THEN Append(notifs,
                                    Notification(actor, "Order Placed Successfully",
                                                 "pending approval", "order",
                                                 orderID, "order"))
                             ELSE notifs
           ELSE UNCHANGED <<orders, payments, notifs>>
  /\ UNCHANGED <<subs, srs, calls, now, workers, products>>

CreateOrder(actor, req, fail) ==
  /\ CanStart
  /\ Len(orders) < MaxOrders
  /\ nops' = nops + 1
  /\ LET result == CreateOrderResult(actor, req, fail)
         orderID == Len(orders) + 1
     IN /\ resp' = Respond(nops + 1, "CreateOrder", actor, result, [order |-> orderID])
        /\ IF result = "ok"
           THEN LET order == NewOrder(actor, req, products[req.productID], now)
                IN /\ orders' = Append(orders, order)
                   /\ payments' = Append(payments,
                                    InitialPayment(actor, orderID, order.total, now))
                   /\ notifs' = Append(notifs,
                                  Notification(actor, "Order Placed Successfully",
                                               "pending approval", "order",
                                               orderID, "order"))
           ELSE UNCHANGED <<orders, payments, notifs>>
  /\ UNCHANGED <<subs, srs, calls, now, workers, products>>

DoCreateOrder ==
  \E actor \in CreateOrderActors, p \in CreateOrderProducts,
     f \in CreateOrderFranchises, d \in RentalDurations,
     fail \in CreateOrderFailures :
    CreateOrder(actor, [productID |-> p, franchiseID |-> f, rentalDuration |-> d,
                        notes |-> <<>>], fail)

(***************************************************************************)
(* UpdateOrderStatus.  The handler reads status, franchise_id, customer_id *)
(* and product_id outside the transaction, then opens the transaction,     *)
(* reads the whole row, and writes it back with Save.                      *)
(***************************************************************************)
UpdateStatusActors == {1, 2, 4}

UpdateStatusOrders == 1..MaxOrders

\* {status, service_agent_id, notes}; "" is the empty sequence of notes
UpdateStatusRequests ==
  { [status |-> OrderStatusApproved, agent |-> 6, notes |-> <<"n">>],
    [status |-> OrderStatusRejected, agent |-> 0, notes |-> <<>>],
    [status |-> OrderStatusPending,  agent |-> 0, notes |-> <<>>] }

\* the message of the customer notification, keyed by the new status
StatusMessage(status) ==
  CASE status = OrderStatusApproved -> "approved, subscription active"
    [] status = OrderStatusRejected -> "rejected"
    [] status = OrderStatusCancelled -> "cancelled"
    [] status = OrderStatusInTransit -> "in transit"
    [] status = OrderStatusDelivered -> "delivered"
    [] status = OrderStatusInstalled -> "installed"
    [] OTHER -> <<"status updated to", status>>

UpdateOrderStatusStart(actor, orderID, req) ==
  /\ CanStart
  /\ nops' = nops + 1
  /\ LET role == Users[actor].role
         id == nops + 1
         fail(result) ==
           /\ resp' = Respond(id, "UpdateOrderStatus", actor, result,
                              [order |-> orderID, error |-> result])
           /\ UNCHANGED calls
     IN IF role # RoleAdmin /\ role # RoleFranchiseOwner THEN fail("PermissionDenied")
        ELSE IF ~Exists(orders, orderID) THEN fail("NotFound")
        ELSE IF role = RoleFranchiseOwner
                THEN IF ~Exists(Franchises, orders[orderID].franchise)
                        THEN fail("ServerError")
                        \* userID.(int64) on the uint the middleware stored
                        ELSE fail("Panic")
        ELSE /\ calls' = calls \cup
                  {[id |-> id, op |-> "UpdateOrderStatus", pc |-> "begin",
                    actor |-> actor, order |-> orderID, req |-> req,
                    currentStatus |-> orders[orderID].status,
                    franchiseID |-> orders[orderID].franchise,
                    customerID |-> orders[orderID].customer,
                    productID |-> orders[orderID].product,
                    row |-> orders[orderID],
                    \* not read by the handler: the subscriptions of the
                    \* order at the time of the request
                    subsBefore |-> Cardinality(SubsOfOrder(subs, orderID))]}
             /\ UNCHANGED resp
  /\ UNCHANGED <<orders, payments, subs, notifs, srs, now, workers, products>>

\* tx := DB.Begin(); tx.First(&order, orderID)
UpdateOrderStatusRead(c, fail) ==
  /\ c \in calls
  /\ c.op = "UpdateOrderStatus"
  /\ c.pc = "begin"
  /\ IF fail
     THEN /\ calls' = calls \ {c}
          /\ resp' = Respond(c.id, c.op, c.actor, "ServerError",
                             [order |-> c.order, error |-> "Error finding order"])
     ELSE /\ calls' = (calls \ {c}) \cup
                        {[c EXCEPT !.pc = "write", !.row = orders[c.order]]}
          /\ UNCHANGED resp
  /\ UNCHANGED <<orders, payments, subs, notifs, srs, nops, now, workers, products>>

\* lines 451-467: the fields the request changes on the row read in the tx
OrderWithStatus(row, req) ==
  [row EXCEPT !.status = req.status,
              !.agent = IF req.agent > 0 THEN req.agent ELSE @,
              !.notes = IF req.notes # <<>> THEN @ \o req.notes ELSE @]

IsApproval(c) ==
  c.req.status = OrderStatusApproved /\ c.currentStatus # OrderStatusApproved

\* the dates are counted from the day the order was placed
NewSubscription_FromOrderDate(c, order, t) ==
  [order |-> c.order, customer |-> c.customerID, product |-> c.productID,
   franchise |-> c.franchiseID, status |-> SubscriptionStatusActive,
   startDate |-> order.rentalStart,
   endDate |-> AddDate(order.rentalStart, 0, order.rentalDuration, 0),
   nextBilling |-> AddDate(order.rentalStart, 0, 1, 0),
   monthlyRent |-> order.monthlyRent,
   nextMaintenance |-> AddDate(order.rentalStart, 0, 3, 0)]

\* lines 490-510: the subscription of an approved order, dated from
\* startDate := time.Now()
NewSubscription(c, order, t) ==
  [order |-> c.order, customer |-> c.customerID, product |-> c.productID,
   franchise |-> c.franchiseID, status |-> SubscriptionStatusActive,
   startDate |-> t, endDate |-> AddDate(t, 0, order.rentalDuration, 0),
   nextBilling |-> AddDate(t, 0, 1, 0), monthlyRent |-> order.monthlyRent,
   nextMaintenance |-> AddDate(t, 0, 3, 0)]

UpdateStatusFailures(c) ==
  IF IsApproval(c)
  THEN {"none", "save", "reload", "subscription", "startdate", "notification", "commit"}
  ELSE {"none", "save", "notification", "commit"}

\* the writes go to the database outside the transaction: what was written
\* before the failing statement stays
UpdateOrderStatusTx_NoRollback(D, c, fail, t) ==
  LET saved == OrderWithStatus(c.row, c.req)
      started == [saved EXCEPT !.rentalStart = t]
      final == IF IsApproval(c) THEN started ELSE saved
      afterSave == [D EXCEPT !.orders[c.order] = saved]
      afterInsert == [afterSave EXCEPT !.subs = Append(@, NewSubscription(c, saved, t))]
      afterStart == [afterInsert EXCEPT !.orders[c.order] = started]
      written == IF IsApproval(c) THEN afterStart ELSE afterSave
  IN CASE fail = "save" -> D
       [] fail = "reload" -> afterSave
       [] fail = "subscription" -> afterSave
       [] fail = "startdate" -> afterInsert
       [] fail = "notification" -> written
       [] OTHER ->
            [written EXCEPT !.notifs =
               Append(@, Notification(c.customerID, "Order Status Updated",
                                      StatusMessage(c.req.status), "order",
                                      c.order, "order"))]

\* The tables after the transaction of UpdateOrderStatus: every failing
\* statement is followed by tx.Rollback(), a failing Commit leaves nothing.
UpdateOrderStatusTx(D, c, fail, t) ==
  LET saved == OrderWithStatus(c.row, c.req)
      started == [saved EXCEPT !.rentalStart = t]
      final == IF IsApproval(c) THEN started ELSE saved
  IN IF fail # "none" THEN D
     ELSE [orders |-> [D.orders EXCEPT ![c.order] = final],
           subs |-> IF IsApproval(c)
                    THEN Append(D.subs, NewSubscription(c, saved, t))
                    ELSE D.subs,
           notifs |-> Append(D.notifs,
                        Notification(c.customerID, "Order Status Updated",
                                     StatusMessage(c.req.status), "order",
                                     c.order, "order"))]

UpdateOrderStatusWrite(c, fail) ==
  /\ c \in calls
  /\ c.op = "UpdateOrderStatus"
  /\ c.pc = "write"
  /\ fail \in UpdateStatusFailures(c)
  /\ LET D == UpdateOrderStatusTx([orders |-> orders, subs |-> subs, notifs |-> notifs],
                                  c, fail, now)
     IN /\ orders' = D.orders
        /\ subs' = D.subs
        /\ notifs' = D.notifs
  /\ calls' = calls \ {c}
  /\ resp' = Respond(c.id, c.op, c.actor,
                     IF fail = "none" THEN "ok" ELSE "ServerError",
                     [order |-> c.order, error |-> fail])
  /\ UNCHANGED <<payments, srs, nops, now, workers, products>>

UpdateOrderStatus ==
  \/ \E actor \in UpdateStatusActors, o \in UpdateStatusOrders,
        req \in UpdateStatusRequests :
       UpdateOrderStatusStart(actor, o, req)
  \/ \E c \in calls, fail \in BOOLEAN : UpdateOrderStatusRead(c, fail)
  \/ \E c \in calls, fail \in {"none", "save", "reload", "subscription",
                               "startdate", "notification", "commit"} :
       UpdateOrderStatusWrite(c, fail)

(***************************************************************************)
(* AssignOrderToFranchise: First(&order), then Save(&order), no            *)
(* transaction.                                                            *)
(***************************************************************************)
AssignActors == {1, 2}

AssignFranchises == {2}

AssignOrderToFranchiseStart(actor, orderID, franchiseID) ==
  /\ CanStart
  /\ nops' = nops + 1
  /\ LET id == nops + 1
         fail(result) ==
           /\ resp' = Respond(id, "AssignOrderToFranchise", actor, result,
                              [order |-> orderID])
           /\ UNCHANGED calls
     IN IF Users[actor].role # RoleAdmin THEN fail("PermissionDenied")
        ELSE IF ~Exists(orders, orderID) THEN fail("NotFound")
        ELSE /\ calls' = calls \cup
                  {[id |-> id, op |-> "AssignOrderToFranchise", pc |-> "write",
                    actor |-> actor, order |-> orderID,
                    req |-> [franchiseID |-> franchiseID],
                    row |-> orders[orderID]]}
             /\ UNCHANGED resp
  /\ UNCHANGED <<orders, payments, subs, notifs, srs, now, workers, products>>

AssignOrderToFranchiseWrite(c, fail) ==
  /\ c \in calls
  /\ c.op = "AssignOrderToFranchise"
  /\ c.pc = "write"
  /\ orders' = IF fail THEN orders
               ELSE [orders EXCEPT ![c.order] =
                       [c.row EXCEPT !.franchise = c.req.franchiseID]]
  /\ calls' = calls \ {c}
  /\ resp' = Respond(c.id, c.op, c.actor, IF fail THEN "ServerError" ELSE "ok",
                     [order |-> c.order])
  /\ UNCHANGED <<payments, subs, notifs, srs, nops, now, workers, products>>

AssignOrderToFranchise ==
  \/ \E actor \in AssignActors, o \in UpdateStatusOrders, f \in AssignFranchises :
       AssignOrderToFranchiseStart(actor, o, f)
  \/ \E c \in calls, fail \in BOOLEAN : AssignOrderToFranchiseWrite(c, fail)

(***************************************************************************)
(* payment_controller.go                                                   *)
(***************************************************************************)
\* hex(HMAC-SHA256(secret, data)): equal exactly for equal key and message
hmacSHA256(secret, data) == <<"hmac", secret, data>>

\* request.OrderID + "|" + request.PaymentID under config.RazorpaySecret
expectedSignature(req) ==
  hmacSHA256(RazorpaySecret, <<req.orderRef, "|", req.paymentID>>)

\* a comparison that lets every signature through
signatureMatches_Unchecked(req) == expectedSignature(req) = expectedSignature(req)

\* expectedSignature != request.Signature rejects the request
signatureMatches(req) == expectedSignature(req) = req.signature

generateMonthlyInvoiceNumber(subscriptionID, t) ==
  <<"INV-M-", FormatYYYYMMDD(t), subscriptionID>>

\* the ids razorpay hands out for the orders it creates
GatewayOrderRefs == {"order_A"}

GatewayPaymentRefs == {"pay_1", "pay_2"}

PaymentActors == {1, 4, 5}

PendingInitialPayments(P, orderID) ==
  {i \in DOMAIN P : /\ P[i].order = orderID
                    /\ P[i].ptype = "initial"
                    /\ P[i].status = PaymentStatusPending}

PendingMonthlyPayments(P, subID) ==
  {i \in DOMAIN P : /\ P[i].sub = subID
                    /\ P[i].ptype = "monthly"
                    /\ P[i].status = PaymentStatusPending}

Min(S) == CHOOSE x \in S : \A y \in S : x <= y

\* First(&payment): the matching row with the smallest primary key, 0 if none
FirstOf(S) == IF S = {} THEN 0 ELSE Min(S)

(***************************************************************************)
(* GeneratePaymentOrder                                                    *)
(***************************************************************************)
\* a gateway order is made whatever the status of the order is
GeneratePaymentOrderStart_AnyStatus(actor, orderID, gateway) ==
  /\ CanStart
  /\ nops' = nops + 1
  /\ LET id == nops + 1
         fail(result) ==
           /\ resp' = Respond(id, "GeneratePaymentOrder", actor, result,
                              [order |-> orderID])
           /\ UNCHANGED calls
     IN IF Users[actor].role # RoleCustomer THEN fail("PermissionDenied")
        ELSE IF ~Exists(orders, orderID) \/ orders[orderID].customer # actor
                THEN fail("NotFound")
        ELSE IF gateway = "error" THEN fail("ServerError")
        ELSE /\ calls' = calls \cup
                  {[id |-> id, op |-> "GeneratePaymentOrder", pc |-> "write",
                    actor |-> actor, order |-> orderID,
                    razorpayOrder |-> gateway]}
             /\ UNCHANGED resp
  /\ UNCHANGED <<orders, payments, subs, notifs, srs, now, workers, products>>

GeneratePaymentOrderStart(actor, orderID, gateway) ==
  /\ CanStart
  /\ nops' = nops + 1
  /\ LET id == nops + 1
         fail(result) ==
           /\ resp' = Respond(id, "GeneratePaymentOrder", actor, result,
                              [order |-> orderID])
           /\ UNCHANGED calls
     IN IF Users[actor].role # RoleCustomer THEN fail("PermissionDenied")
        ELSE IF ~Exists(orders, orderID) \/ orders[orderID].customer # actor
                THEN fail("NotFound")
        ELSE IF orders[orderID].status # OrderStatusPending THEN fail("InvalidState")
        ELSE IF gateway = "error" THEN fail("ServerError")
        ELSE /\ calls' = calls \cup
                  {[id |-> id, op |-> "GeneratePaymentOrder", pc |-> "write",
                    actor |-> actor, order |-> orderID,
                    razorpayOrder |-> gateway]}
             /\ UNCHANGED resp
  /\ UNCHANGED <<orders, payments, subs, notifs, srs, now, workers, products>>

\* a payment row is inserted for every gateway order
GeneratePaymentOrderWrite_Insert(c, fail) ==
  /\ c \in calls
  /\ c.op = "GeneratePaymentOrder"
  /\ c.pc = "write"
  /\ payments' =
       IF fail THEN payments
       ELSE Append(payments,
                   [InitialPayment(c.actor, c.order, orders[c.order].total, now)
                      EXCEPT !.txn = c.razorpayOrder,
                             !.details = <<c.razorpayOrder>>])
  /\ calls' = calls \ {c}
  /\ resp' = Respond(c.id, c.op, c.actor, "ok", [order |-> c.order])
  /\ UNCHANGED <<orders, subs, notifs, srs, nops, now, workers, products>>

\* Updates(transaction_id, payment_details) on the pending initial payment;
\* a failing update is logged and the handler answers 200 all the same
GeneratePaymentOrderWrite(c, fail) ==
  /\ c \in calls
  /\ c.op = "GeneratePaymentOrder"
  /\ c.pc = "write"
  /\ payments' =
       IF fail THEN payments
       ELSE [i \in DOMAIN payments |->
               IF i \in PendingInitialPayments(payments, c.order)
               THEN [payments[i] EXCEPT !.txn = c.razorpayOrder,
                                        !.details = <<c.razorpayOrder>>]
               ELSE payments[i]]
  /\ calls' = calls \ {c}
  /\ resp' = Respond(c.id, c.op, c.actor, "ok", [order |-> c.order])
  /\ UNCHANGED <<orders, subs, notifs, srs, nops, now, workers, products>>

GeneratePaymentOrder ==
  \/ \E actor \in PaymentActors, o \in UpdateStatusOrders,
        g \in GatewayOrderRefs \cup {"error"} :
       GeneratePaymentOrderStart(actor, o, g)
  \/ \E c \in calls, fail \in BOOLEAN : GeneratePaymentOrderWrite(c, fail)

(***************************************************************************)
(* VerifyPayment                                                           *)
(***************************************************************************)
\* {payment_id, order_id, signature, aquahome_order_id, subscription_id};
\* subscription_id 0 is the absent (nil) field
VerifyRequests ==
  { [paymentID |-> p, orderRef |-> "order_A",
     signature |-> hmacSHA256(k, <<"order_A", "|", q>>),
     aquaOrder |-> t[1], subID |-> t[2]] :
      p \in GatewayPaymentRefs, q \in {"pay_1"},
      k \in {RazorpaySecret, "guess"},
      t \in {<<1, 0>>, <<0, 1>>} }
    \cup
  \* a second payment the gateway took for the same gateway order
  { [paymentID |-> "pay_2", orderRef |-> "order_A",
     signature |-> hmacSHA256(RazorpaySecret, <<"order_A", "|", "pay_2">>),
     aquaOrder |-> 1, subID |-> 0] }

\* the status of the order is not looked at
VerifyPaymentStart_AnyStatus(actor, req) ==
  /\ CanStart
  /\ nops' = nops + 1
  /\ LET id == nops + 1
         fail(result) ==
           /\ resp' = Respond(id, "VerifyPayment", actor, result,
                              [req |-> req, error |-> result])
           /\ UNCHANGED calls
         call(fields) ==
           /\ calls' = calls \cup
                {[id |-> id, op |-> "VerifyPayment", pc |-> "write",
                  actor |-> actor, req |-> req] @@ fields}
           /\ UNCHANGED resp
     IN IF Users[actor].role # RoleCustomer THEN fail("PermissionDenied")
        ELSE IF ~signatureMatches(req) THEN fail("InvalidSignature")
        ELSE IF req.subID # 0
        THEN \* monthly payment of a subscription
             IF ~Exists(subs, req.subID) THEN fail("NotFound")
             ELSE IF subs[req.subID].customer # actor THEN fail("PermissionDenied")
             ELSE LET found == FirstOf(PendingMonthlyPayments(payments, req.subID))
                  IN call([paymentType |-> "monthly",
                           order |-> subs[req.subID].order,
                           monthlyRent |-> subs[req.subID].monthlyRent,
                           found |-> found,
                           row |-> IF found = 0 THEN <<>> ELSE payments[found]])
        ELSE \* initial payment of an order
             IF ~Exists(orders, req.aquaOrder) THEN fail("NotFound")
             ELSE IF orders[req.aquaOrder].customer # actor THEN fail("PermissionDenied")
             ELSE call([paymentType |-> "initial", order |-> req.aquaOrder,
                        monthlyRent |-> 0, found |-> 0, row |-> <<>>])
  /\ UNCHANGED <<orders, payments, subs, notifs, srs, now, workers, products>>

VerifyPaymentStart(actor, req) ==
  /\ CanStart
  /\ nops' = nops + 1
  /\ LET id == nops + 1
         fail(result) ==
           /\ resp' = Respond(id, "VerifyPayment", actor, result,
                              [req |-> req, error |-> result])
           /\ UNCHANGED calls
         call(fields) ==
           /\ calls' = calls \cup
                {[id |-> id, op |-> "VerifyPayment", pc |-> "write",
                  actor |-> actor, req |-> req] @@ fields}
           /\ UNCHANGED resp
     IN IF Users[actor].role # RoleCustomer THEN fail("PermissionDenied")
        ELSE IF ~signatureMatches(req) THEN fail("InvalidSignature")
        ELSE IF req.subID # 0
        THEN \* monthly payment of a subscription
             IF ~Exists(subs, req.subID) THEN fail("NotFound")
             ELSE IF subs[req.subID].customer # actor THEN fail("PermissionDenied")
             ELSE LET found == FirstOf(PendingMonthlyPayments(payments, req.subID))
                  IN call([paymentType |-> "monthly",
                           order |-> subs[req.subID].order,
                           monthlyRent |-> subs[req.subID].monthlyRent,
                           found |-> found,
                           row |-> IF found = 0 THEN <<>> ELSE payments[found]])
        ELSE \* initial payment of an order
             IF ~Exists(orders, req.aquaOrder) THEN fail("NotFound")
             ELSE IF orders[req.aquaOrder].customer # actor THEN fail("PermissionDenied")
             ELSE IF orders[req.aquaOrder].status # OrderStatusPending
                     THEN fail("Conflict")
             ELSE call([paymentType |-> "initial", order |-> req.aquaOrder,
                        monthlyRent |-> 0, found |-> 0, row |-> <<>>])
  /\ UNCHANGED <<orders, payments, subs, notifs, srs, now, workers, products>>

Settled(row, req) ==
  [row EXCEPT !.status = PaymentStatusSuccess, !.txn = req.paymentID,
              !.method = "razorpay",
              !.details = <<req.orderRef, req.paymentID>>]

\* the payment row a monthly verification inserts when none is pending
MonthlyPaymentRecord(c, t) ==
  [customer |-> c.actor, order |-> c.order, sub |-> c.req.subID,
   amount |-> c.monthlyRent, ptype |-> "monthly",
   status |-> PaymentStatusSuccess,
   invoice |-> generateInvoiceNumber(c.order, t), method |-> "razorpay",
   txn |-> c.req.paymentID, details |-> <<c.req.orderRef, c.req.paymentID>>]

VerifyFailures == {"none", "payment", "target", "notification", "commit"}

\* the notification is inserted after the settlement was committed
VerifyPaymentTx_NotificationOutside(D, c, fail, t) ==
  LET paid ==
        IF c.paymentType = "initial"
        THEN [i \in DOMAIN D.payments |->
                IF D.payments[i].order = c.order /\ D.payments[i].ptype = "initial"
                THEN Settled(D.payments[i], c.req)
                ELSE D.payments[i]]
        ELSE IF c.found = 0
             THEN Append(D.payments, MonthlyPaymentRecord(c, t))
             ELSE [D.payments EXCEPT ![c.found] = Settled(c.row, c.req)]
      title == IF c.paymentType = "initial" THEN "Initial" ELSE "Monthly"
      settled ==
        [payments |-> paid,
         orders |-> IF c.paymentType = "initial"
                    THEN [D.orders EXCEPT ![c.order].status = OrderStatusApproved]
                    ELSE D.orders,
         subs |-> IF c.paymentType = "monthly"
                  THEN [D.subs EXCEPT ![c.req.subID].nextBilling = AddDate(t, 0, 1, 0)]
                  ELSE D.subs,
         notifs |-> D.notifs]
  IN CASE fail = "notification" -> settled
       [] fail = "none" ->
            [settled EXCEPT !.notifs =
               Append(@, Notification(c.actor, "Payment Successful",
                                      <<title, "payment processed">>, "payment",
                                      c.order, "order"))]
       [] OTHER -> D

\* The tables after the transaction of VerifyPayment.
VerifyPaymentTx(D, c, fail, t) ==
  LET paid ==
        IF c.paymentType = "initial"
        THEN [i \in DOMAIN D.payments |->
                IF D.payments[i].order = c.order /\ D.payments[i].ptype = "initial"
                THEN Settled(D.payments[i], c.req)
                ELSE D.payments[i]]
        ELSE IF c.found = 0
             THEN Append(D.payments, MonthlyPaymentRecord(c, t))
             ELSE [D.payments EXCEPT ![c.found] = Settled(c.row, c.req)]
      title == IF c.paymentType = "initial" THEN "Initial" ELSE "Monthly"
  IN IF fail # "none" THEN D
     ELSE [payments |-> paid,
           orders |-> IF c.paymentType = "initial"
                      THEN [D.orders EXCEPT ![c.order].status = OrderStatusApproved]
                      ELSE D.orders,
           subs |-> IF c.paymentType = "monthly"
                    THEN [D.subs EXCEPT ![c.req.subID].nextBilling = AddDate(t, 0, 1, 0)]
                    ELSE D.subs,
           notifs |-> Append(D.notifs,
                        Notification(c.actor, "Payment Successful",
                                     <<title, "payment processed">>, "payment",
                                     c.order, "order"))]

VerifyPaymentWrite(c, fail) ==
  /\ c \in calls
  /\ c.op = "VerifyPayment"
  /\ c.pc = "write"
  /\ LET D == VerifyPaymentTx([orders |-> orders, payments |-> payments,
                               subs |-> subs, notifs |-> notifs], c, fail, now)
     IN /\ orders' = D.orders
        /\ payments' = D.payments
        /\ subs' = D.subs
        /\ notifs' = D.notifs
  /\ calls' = calls \ {c}
  /\ resp' = Respond(c.id, c.op, c.actor,
                     IF fail = "none" THEN "ok" ELSE "ServerError",
                     [req |-> c.req, error |-> fail])
  /\ UNCHANGED <<srs, nops, now, workers, products>>

VerifyPayment ==
  \/ \E actor \in PaymentActors, req \in VerifyRequests :
       VerifyPaymentStart(actor, req)
  \/ \E c \in calls, fail \in VerifyFailures : VerifyPaymentWrite(c, fail)

(***************************************************************************)
(* GenerateMonthlyPayment                                                  *)
(***************************************************************************)
GenerateMonthlyPaymentStart(actor, subID, gateway) ==
  /\ CanStart
  /\ nops' = nops + 1
  /\ LET id == nops + 1
         fail(result) ==
           /\ resp' = Respond(id, "GenerateMonthlyPayment", actor, result,
                              [sub |-> subID])
           /\ UNCHANGED calls
     IN IF Users[actor].role # RoleCustomer THEN fail("PermissionDenied")
        ELSE IF ~Exists(subs, subID) \/ subs[subID].customer # actor
                THEN fail("NotFound")
        ELSE IF subs[subID].status # SubscriptionStatusActive THEN fail("InvalidState")
        ELSE IF gateway = "error" THEN fail("ServerError")
        ELSE LET found == FirstOf(PendingMonthlyPayments(payments, subID))
             IN /\ calls' = calls \cup
                     {[id |-> id, op |-> "GenerateMonthlyPayment", pc |-> "write",
                       actor |-> actor, sub |-> subID,
                       monthlyRent |-> subs[subID].monthlyRent,
                       razorpayOrder |-> gateway, found |-> found,
                       row |-> IF found = 0 THEN <<>> ELSE payments[found]]}
                /\ UNCHANGED resp
  /\ UNCHANGED <<orders, payments, subs, notifs, srs, now, workers, products>>

PendingMonthlyPayment(c, t) ==
  [customer |-> c.actor, order |-> 0, sub |-> c.sub,
   amount |-> c.monthlyRent, ptype |-> "monthly",
   status |-> PaymentStatusPending,
   invoice |-> generateMonthlyInvoiceNumber(c.sub, t), method |-> "",
   txn |-> c.razorpayOrder, details |-> <<c.razorpayOrder>>]

\* Create or Save of the pending monthly payment; a failure is logged only
GenerateMonthlyPaymentWrite(c, fail) ==
  /\ c \in calls
  /\ c.op = "GenerateMonthlyPayment"
  /\ c.pc = "write"
  /\ payments' =
       IF fail THEN payments
       ELSE IF c.found = 0 THEN Append(payments, PendingMonthlyPayment(c, now))
       ELSE [payments EXCEPT ![c.found] =
               [c.row EXCEPT !.txn = c.razorpayOrder,
                             !.details = <<c.razorpayOrder>>]]
  /\ calls' = calls \ {c}
  /\ resp' = Respond(c.id, c.op, c.actor, "ok", [sub |-> c.sub])
  /\ UNCHANGED <<orders, subs, notifs, srs, nops, now, workers, products>>

GenerateMonthlyPayment ==
  \/ \E actor \in PaymentActors, s \in {1}, g \in GatewayOrderRefs \cup {"error"} :
       GenerateMonthlyPaymentStart(actor, s, g)
  \/ \E c \in calls, fail \in BOOLEAN : GenerateMonthlyPaymentWrite(c, fail)

Next ==
  \/ Tick
  \/ DoCreateOrder
  \/ UpdateOrderStatus
  \/ AssignOrderToFranchise
  \/ GeneratePaymentOrder
  \/ VerifyPayment
  \/ GenerateMonthlyPayment

Spec == Init /\ [][Next]_vars

\* the same handlers, served one request after another
InitSeq ==
  /\ orders = <<>>
  /\ payments = <<>>
  /\ subs = <<>>
  /\ notifs = <<>>
  /\ srs = <<>>
  /\ calls = {}
  /\ resp = NoResp
  /\ nops = 0
  /\ now = StartDay
  /\ workers = 1
  /\ products = Products

SpecSeq == InitSeq /\ [][Next]_vars

\* orders are placed and approved, and gateway orders are asked for
NextBilling ==
  \/ DoCreateOrder
  \/ UpdateOrderStatus
  \/ GeneratePaymentOrder
  \/ GenerateMonthlyPayment

SpecBilling == Init /\ [][NextBilling]_vars

\* orders are placed, approved and assigned to franchises while the clock runs
NextApproval ==
  \/ Tick
  \/ DoCreateOrder
  \/ UpdateOrderStatus
  \/ AssignOrderToFranchise

SpecApproval == Init /\ [][NextApproval]_vars

(***************************************************************************)
(* product_controller.go: the admin changes the prices of a product.       *)
(***************************************************************************)
\* ProductRequest: the three prices are `binding:"required"`, which rejects 0
ProductRequests ==
  {[monthlyRent |-> 60, securityDeposit |-> 25, installationFee |-> 15, active |-> TRUE],
   [monthlyRent |-> 0, securityDeposit |-> 25, installationFee |-> 15, active |-> TRUE]}

UpdateProductResult(actor, id, req, fail) ==
  IF Users[actor].role # RoleAdmin THEN "PermissionDenied"
  ELSE IF ~Exists(products, id) THEN "NotFound"
  ELSE IF req.monthlyRent = 0 \/ req.securityDeposit = 0 \/ req.installationFee = 0
    THEN "ValidationError"
  ELSE IF fail THEN "ServerError"
  ELSE "ok"

\* PUT /admin/products/:id: every field of the row is overwritten from the
\* request and the row is saved; no other table is written
UpdateProduct(actor, id, req, fail) ==
  /\ CanStart
  /\ nops' = nops + 1
  /\ LET result == UpdateProductResult(actor, id, req, fail)
     IN  /\ resp' = Respond(nops + 1, "UpdateProduct", actor, result,
                            [product |-> id, req |-> req])
         /\ products' = IF result = "ok"
                          THEN [products EXCEPT ![id] =
                                  [monthlyRent |-> req.monthlyRent,
                                   securityDeposit |-> req.securityDeposit,
                                   installationFee |-> req.installationFee,
                                   active |-> req.active]]
                          ELSE products
  /\ UNCHANGED <<orders, payments, subs, notifs, srs, calls, now, workers>>

DoUpdateProduct ==
  \E actor \in {1, 4}, id \in {1, 3}, req \in ProductRequests, fail \in BOOLEAN :
    UpdateProduct(actor, id, req, fail)

\* orders are placed, approved, assigned and paid while the prices change
NextCatalog ==
  \/ DoCreateOrder
  \/ UpdateOrderStatus
  \/ AssignOrderToFranchise
  \/ VerifyPayment
  \/ DoUpdateProduct

SpecCatalog == Init /\ [][NextCatalog]_vars

(***************************************************************************)
(* Service requests.  service_controller.go holds the handlers the router  *)
(* mounts for create, cancel and feedback; auth_controller.go holds the    *)
(* *New handlers, of which the router mounts the update.  The two families *)
(* issue the same statements and differ in how they read the caller's id   *)
(* from the gin context.                                                   *)
(***************************************************************************)
MaxRequests == 2

\* AuthMiddleware: c.Set("user_id", user.ID), a uint
ContextUserID(actor) == [type |-> "uint", value |-> <<actor>>]

\* gin's Context.GetString: the value if it is a string, "" otherwise;
\* a string is the sequence of its digits
GetString(v) == IF v.type = "string" THEN v.value ELSE <<>>

\* strconv.ParseUint(s, 10, 64): "" is a syntax error
ParseUint(s) ==
  IF s = <<>> THEN [ok |-> FALSE, value |-> 0] ELSE [ok |-> TRUE, value |-> s[1]]

\* userID := c.GetString("user_id"); userIDInt, err := strconv.ParseUint(...)
userIDInt(actor) == ParseUint(GetString(ContextUserID(actor)))

\* time.Parse(time.RFC3339, s) at day precision
ParseRFC3339(s) ==
  CASE s = "2006-02-01T10:00:00Z" -> [ok |-> TRUE, t |-> 31]
    [] s = "2006-02-03T10:00:00Z" -> [ok |-> TRUE, t |-> 33]
    [] s = "2006-01-02T10:00:00Z" -> [ok |-> TRUE, t |-> 1]
    [] OTHER -> [ok |-> FALSE, t |-> 0]

\* a NULL service_agent_id, rating, scheduled_time or completion_time is 0
NewServiceRequest(customerID, subID) ==
  [customer |-> customerID, sub |-> subID, status |-> ServiceStatusPending,
   agent |-> 0, scheduled |-> 0, completion |-> 0, notes |-> "",
   rating |-> 0, feedback |-> ""]

ServiceNotification(user, title, message, srID) ==
  Notification(user, title, message, "service_request", srID, "service_request")

\* Preload("Franchise"): a franchise that does not exist loads as the zero row
FranchiseOwnerOf(sub) ==
  IF Exists(Franchises, sub.franchise) THEN Franchises[sub.franchise].owner ELSE 0

HasFranchiseOwner(sub) == sub.franchise # 0 /\ FranchiseOwnerOf(sub) # 0

\* the statements of the transaction that can fail
CreateServiceFailures(subID) ==
  IF Exists(subs, subID) /\ ~HasFranchiseOwner(subs[subID])
  THEN {"none", "request", "notification", "commit"}
  ELSE {"none", "request", "notification", "ownerNotification", "commit"}

CreateServiceRequestResult(userID, subID, fail) ==
  IF ~(Exists(subs, subID) /\ subs[subID].customer = userID) THEN "NotFound"
  ELSE IF subs[subID].status # SubscriptionStatusActive THEN "InvalidState"
  ELSE IF fail # "none" THEN "ServerError"
  ELSE "ok"

\* the statements shared by CreateServiceRequest and CreateServiceRequestNew
CreateService(op, actor, userID, subID, fail) ==
  LET result == CreateServiceRequestResult(userID, subID, fail)
      srID == Len(srs) + 1
      owner == FranchiseOwnerOf(subs[subID])
      created == ServiceNotification(userID, "Service Request Created",
                                     "pending assignment", srID)
      forOwner == ServiceNotification(owner, "New Service Request",
                                      "needs your attention", srID)
  IN /\ fail \in CreateServiceFailures(subID)
     /\ resp' = Respond(nops + 1, op, actor, result,
                        [sr |-> IF result = "ok" THEN srID ELSE 0, sub |-> subID,
                         error |-> fail])
     /\ IF result = "ok"
        THEN /\ srs' = Append(srs, NewServiceRequest(userID, subID))
             /\ notifs' = IF HasFranchiseOwner(subs[subID])
                          THEN notifs \o <<created, forOwner>>
                          ELSE Append(notifs, created)
        ELSE UNCHANGED <<srs, notifs>>

CreateServiceRequestNew(actor, subID, fail) ==
  /\ CanStart
  /\ Len(srs) < MaxRequests
  /\ nops' = nops + 1
  /\ CreateService("CreateServiceRequestNew", actor, actor, subID, fail)
  /\ UNCHANGED <<orders, payments, subs, calls, now, workers, products>>

CreateServiceRequest(actor, subID, fail) ==
  /\ CanStart
  /\ Len(srs) < MaxRequests
  /\ nops' = nops + 1
  /\ IF ~userIDInt(actor).ok
     THEN /\ resp' = Respond(nops + 1, "CreateServiceRequest", actor,
                             "ValidationError",
                             [sr |-> 0, sub |-> subID, error |-> "Invalid user ID"])
          /\ UNCHANGED <<srs, notifs>>
     ELSE CreateService("CreateServiceRequest", actor, userIDInt(actor).value,
                        subID, fail)
  /\ UNCHANGED <<orders, payments, subs, calls, now, workers, products>>

(***************************************************************************)
(* UpdateServiceRequest and UpdateServiceRequestNew.  The permission query *)
(* runs outside the transaction; then the handler reads the current status *)
(* (when an agent is assigned), writes the changed columns, reloads the    *)
(* row and inserts the notifications.                                      *)
(***************************************************************************)
IsStaff(role) ==
  role = RoleAdmin \/ role = RoleFranchiseOwner \/ role = RoleServiceAgent

\* a franchise owner may update the requests of every franchise
UpdatePermitted_AnyOwner(role, userID, srID, req) ==
     CASE role = RoleAdmin -> Exists(srs, srID)
       [] role = RoleFranchiseOwner -> Exists(srs, srID)
       [] role = RoleServiceAgent ->
            Exists(srs, srID) /\ srs[srID].agent = userID
       [] role = RoleCustomer ->
            /\ req.status = ServiceStatusCancelled
            /\ Exists(srs, srID)
            /\ srs[srID].customer = userID
            /\ srs[srID].status = ServiceStatusPending
       [] OTHER -> FALSE

\* lines 596-646: may the caller update this request at all
UpdatePermitted(role, userID, srID, req) ==
     CASE role = RoleAdmin -> Exists(srs, srID)
       [] role = RoleFranchiseOwner ->
            /\ Exists(srs, srID)
            /\ Exists(subs, srs[srID].sub)
            /\ Exists(Franchises, subs[srs[srID].sub].franchise)
            /\ Franchises[subs[srs[srID].sub].franchise].owner = userID
       [] role = RoleServiceAgent ->
            Exists(srs, srID) /\ srs[srID].agent = userID
       [] role = RoleCustomer ->
            /\ req.status = ServiceStatusCancelled
            /\ Exists(srs, srID)
            /\ srs[srID].customer = userID
            /\ srs[srID].status = ServiceStatusPending
       [] OTHER -> FALSE

AssignsAgent(role, req) ==
  req.agent # 0 /\ (role = RoleAdmin \/ role = RoleFranchiseOwner)

\* the franchise of the agent is not looked at
ValidAgent_AnyFranchise(role, userID, agent) ==
  /\ Exists(Users, agent)
  /\ Users[agent].role = RoleServiceAgent

\* lines 697-724: the agent exists, is a service agent and, for a franchise
\* owner, belongs to a franchise the caller owns
ValidAgent(role, userID, agent) ==
  /\ Exists(Users, agent)
  /\ Users[agent].role = RoleServiceAgent
  /\ role = RoleFranchiseOwner =>
       /\ Exists(Franchises, Users[agent].franchise)
       /\ Franchises[Users[agent].franchise].owner = userID

\* the notes of the body are written for every role
RequestedUpdates_NotesOfAnyRole(role, req) ==
  [status |-> IF req.status # ""
                 /\ (IsStaff(role)
                     \/ (role = RoleCustomer /\ req.status = ServiceStatusCancelled))
              THEN <<req.status>> ELSE <<>>,
   scheduled |-> IF req.scheduledDate # "" /\ IsStaff(role)
                 THEN <<ParseRFC3339(req.scheduledDate).t>> ELSE <<>>,
   completion |-> IF req.completionDate # "" /\ IsStaff(role)
                  THEN <<ParseRFC3339(req.completionDate).t>> ELSE <<>>,
   notes |-> IF req.notes # "" THEN <<req.notes>> ELSE <<>>,
   agent |-> <<>>]

\* lines 657-694: the columns the request sets, before the agent is looked at
RequestedUpdates(role, req) ==
  [status |-> IF req.status # ""
                 /\ (IsStaff(role)
                     \/ (role = RoleCustomer /\ req.status = ServiceStatusCancelled))
              THEN <<req.status>> ELSE <<>>,
   scheduled |-> IF req.scheduledDate # "" /\ IsStaff(role)
                 THEN <<ParseRFC3339(req.scheduledDate).t>> ELSE <<>>,
   completion |-> IF req.completionDate # "" /\ IsStaff(role)
                  THEN <<ParseRFC3339(req.completionDate).t>> ELSE <<>>,
   notes |-> IF req.notes # "" /\ IsStaff(role) THEN <<req.notes>> ELSE <<>>,
   agent |-> <<>>]

\* lines 726-742: the agent and, on a pending request, the promotion
WithAgent(updates, req, currentStatus) ==
  [updates EXCEPT !.agent = <<req.agent>>,
                  !.status = IF currentStatus = ServiceStatusPending
                             THEN <<ServiceStatusAssigned>> ELSE @]

NoUpdates(updates) == \A k \in DOMAIN updates : updates[k] = <<>>

\* tx.Model(&ServiceRequest{}).Where("id = ?", id).Updates(updates)
ApplyUpdates(row, updates) ==
  [k \in DOMAIN row |->
     IF k \in DOMAIN updates /\ updates[k] # <<>> THEN updates[k][1] ELSE row[k]]

\* what is wrong with the request body, read before any statement of the
\* transaction that depends on the database
UpdateValidation(role, userID, req) ==
     IF req.scheduledDate # "" /\ IsStaff(role) /\ ~ParseRFC3339(req.scheduledDate).ok
     THEN "Invalid scheduled date format"
     ELSE IF req.completionDate # "" /\ IsStaff(role)
             /\ ~ParseRFC3339(req.completionDate).ok
     THEN "Invalid completion date format"
     ELSE IF AssignsAgent(role, req) /\ ~ValidAgent(role, userID, req.agent)
     THEN "Invalid service agent ID"
     ELSE IF ~AssignsAgent(role, req) /\ NoUpdates(RequestedUpdates(role, req))
     THEN "No valid updates provided"
     ELSE "none"

\* the statements shared by UpdateServiceRequest and UpdateServiceRequestNew;
\* the role is the string the middleware stored under "role"
UpdateStart(op, actor, userID, srID, req, fail) ==
     LET role == Users[actor].role
         id == nops + 1
         answer(result, error) ==
           /\ resp' = Respond(id, op, actor, result, [sr |-> srID, error |-> error])
           /\ UNCHANGED calls
     IN IF role = RoleCustomer /\ req.status # ServiceStatusCancelled
        THEN answer("PermissionDenied", "Customers can only cancel service requests")
        ELSE IF fail THEN answer("ServerError", "Server error")
        ELSE IF ~UpdatePermitted(role, userID, srID, req)
        THEN answer("PermissionDenied", "permission")
        ELSE IF UpdateValidation(role, userID, req) # "none"
        THEN answer("ValidationError", UpdateValidation(role, userID, req))
        ELSE /\ calls' = calls \cup
                  {[id |-> id, op |-> op,
                    pc |-> IF AssignsAgent(role, req) THEN "pluck" ELSE "write",
                    actor |-> actor, sr |-> srID, req |-> req,
                    updates |-> RequestedUpdates(role, req),
                    \* not read by the handler: the row at the time of the request
                    before |-> srs[srID]]}
             /\ UNCHANGED resp

UpdateServiceRequestNewStart(actor, srID, req, fail) ==
  /\ CanStart
  /\ nops' = nops + 1
  /\ UpdateStart("UpdateServiceRequestNew", actor, actor, srID, req, fail)
  /\ UNCHANGED <<orders, payments, subs, notifs, srs, now, workers, products>>

UpdateServiceRequestStart(actor, srID, req, fail) ==
  /\ CanStart
  /\ nops' = nops + 1
  /\ IF ~userIDInt(actor).ok
     THEN /\ resp' = Respond(nops + 1, "UpdateServiceRequest", actor,
                             "ValidationError",
                             [sr |-> srID, error |-> "Invalid user ID"])
          /\ UNCHANGED calls
     ELSE UpdateStart("UpdateServiceRequest", actor, userIDInt(actor).value,
                      srID, req, fail)
  /\ UNCHANGED <<orders, payments, subs, notifs, srs, now, workers, products>>

\* tx.Model(...).Select("status").Where("id = ?", id).Pluck("status", &currentStatus)
UpdateServiceRequestPluck(c, fail) ==
  /\ c \in calls
  /\ c.op \in {"UpdateServiceRequest", "UpdateServiceRequestNew"}
  /\ c.pc = "pluck"
  /\ IF fail
     THEN /\ calls' = calls \ {c}
          /\ resp' = Respond(c.id, c.op, c.actor, "ServerError",
                             [sr |-> c.sr, error |-> "pluck"])
     ELSE /\ calls' = (calls \ {c}) \cup
                        {[c EXCEPT !.pc = "write",
                                   !.updates = WithAgent(@, c.req, srs[c.sr].status)]}
          /\ UNCHANGED resp
  /\ UNCHANGED <<orders, payments, subs, notifs, srs, nops, now, workers, products>>

\* lines 768-844: the notifications follow the fields of the request body
UpdateNotifications(c, customerID) ==
  (IF c.req.status # ""
   THEN <<ServiceNotification(customerID, "Service Request Updated",
                              <<"status updated to", c.req.status>>, c.sr)>>
   ELSE <<>>)
  \o (IF c.req.agent # 0
      THEN <<ServiceNotification(customerID, "Service Agent Assigned",
                                 "agent assigned", c.sr),
             ServiceNotification(c.req.agent, "New Service Assignment",
                                 <<"assigned to service request", c.sr>>, c.sr)>>
      ELSE <<>>)
  \o (IF c.req.scheduledDate # ""
      THEN <<ServiceNotification(customerID, "Service Visit Scheduled",
                                 <<"scheduled for", c.req.scheduledDate>>, c.sr)>>
      ELSE <<>>)

UpdateServiceFailures(c) ==
  {"none", "update", "reload", "commit"}
    \cup (IF c.req.status # "" THEN {"statusNotification"} ELSE {})
    \cup (IF c.req.agent # 0 THEN {"agentNotification", "assignmentNotification"}
          ELSE {})
    \cup (IF c.req.scheduledDate # "" THEN {"scheduleNotification"} ELSE {})

\* the tables after the transaction: a failing statement rolls it back
UpdateServiceRequestTx(D, c, fail) ==
  LET updated == ApplyUpdates(D.srs[c.sr], c.updates)
  IN IF fail # "none" THEN D
     ELSE [srs |-> [D.srs EXCEPT ![c.sr] = updated],
           notifs |-> D.notifs \o UpdateNotifications(c, updated.customer)]

UpdateServiceRequestWrite(c, fail) ==
  /\ c \in calls
  /\ c.op \in {"UpdateServiceRequest", "UpdateServiceRequestNew"}
  /\ c.pc = "write"
  /\ fail \in UpdateServiceFailures(c)
  /\ LET D == UpdateServiceRequestTx([srs |-> srs, notifs |-> notifs], c, fail)
     IN /\ srs' = D.srs
        /\ notifs' = D.notifs
  /\ calls' = calls \ {c}
  /\ resp' = Respond(c.id, c.op, c.actor,
                     IF fail = "none" THEN "ok" ELSE "ServerError",
                     [sr |-> c.sr, error |-> fail])
  /\ UNCHANGED <<orders, payments, subs, nops, now, workers, products>>

(***************************************************************************)
(* Cancel and feedback.  Both look the request up outside the transaction  *)
(* and write through the row they loaded.                                  *)
(***************************************************************************)
\* lines 893-898: the states a customer may cancel from
CanCancel(status) ==
  \/ status = ServiceStatusPending
  \/ status = ServiceStatusAssigned
  \/ status = ServiceStatusScheduled

\* the statements shared by CancelServiceRequest and CancelServiceRequestNew
CancelStart(op, actor, userID, srID, fail) ==
  LET id == nops + 1
      answer(result, error) ==
        /\ resp' = Respond(id, op, actor, result, [sr |-> srID, error |-> error])
        /\ UNCHANGED calls
  IN IF fail THEN answer("ServerError", "Server error")
     ELSE IF ~(Exists(srs, srID) /\ srs[srID].customer = userID)
     THEN answer("NotFound", "not found or doesn't belong to you")
     ELSE IF ~CanCancel(srs[srID].status)
     THEN answer("InvalidState", "cannot be cancelled in its current state")
     ELSE /\ calls' = calls \cup
               {[id |-> id, op |-> op, pc |-> "write", actor |-> actor,
                 userID |-> userID, sr |-> srID, row |-> srs[srID]]}
          /\ UNCHANGED resp

CancelServiceRequestNewStart(actor, srID, fail) ==
  /\ CanStart
  /\ nops' = nops + 1
  /\ CancelStart("CancelServiceRequestNew", actor, actor, srID, fail)
  /\ UNCHANGED <<orders, payments, subs, notifs, srs, now, workers, products>>

CancelServiceRequestStart(actor, srID, fail) ==
  /\ CanStart
  /\ nops' = nops + 1
  /\ IF ~userIDInt(actor).ok
     THEN /\ resp' = Respond(nops + 1, "CancelServiceRequest", actor,
                             "ValidationError",
                             [sr |-> srID, error |-> "Invalid user ID"])
          /\ UNCHANGED calls
     ELSE CancelStart("CancelServiceRequest", actor, userIDInt(actor).value,
                      srID, fail)
  /\ UNCHANGED <<orders, payments, subs, notifs, srs, now, workers, products>>

CancelFailures(c) ==
  {"none", "update", "notification", "commit"}
    \cup (IF c.row.agent # 0 THEN {"agentNotification"} ELSE {})

\* tx.Model(&serviceRequest).Update("status", cancelled): the row is found
\* by its primary key only
CancelServiceRequestTx(D, c, fail) ==
  IF fail # "none" THEN D
  ELSE [srs |-> [D.srs EXCEPT ![c.sr].status = ServiceStatusCancelled],
        notifs |->
          D.notifs
            \o <<ServiceNotification(c.userID, "Service Request Cancelled",
                                     "cancelled", c.sr)>>
            \o (IF c.row.agent # 0
                THEN <<ServiceNotification(c.row.agent, "Service Request Cancelled",
                                           "cancelled by the customer", c.sr)>>
                ELSE <<>>)]

CancelServiceRequestWrite(c, fail) ==
  /\ c \in calls
  /\ c.op \in {"CancelServiceRequest", "CancelServiceRequestNew"}
  /\ c.pc = "write"
  /\ fail \in CancelFailures(c)
  /\ LET D == CancelServiceRequestTx([srs |-> srs, notifs |-> notifs], c, fail)
     IN /\ srs' = D.srs
        /\ notifs' = D.notifs
  /\ calls' = calls \ {c}
  /\ resp' = Respond(c.id, c.op, c.actor,
                     IF fail = "none" THEN "ok" ELSE "ServerError",
                     [sr |-> c.sr, error |-> fail])
  /\ UNCHANGED <<orders, payments, subs, nops, now, workers, products>>

\* binding:"required,min=1,max=5"
ValidRating(rating) == rating >= 1 /\ rating <= 5

\* the statements shared by SubmitServiceFeedback and SubmitServiceFeedbackNew
FeedbackStart(op, actor, userID, srID, req, fail) ==
  LET id == nops + 1
      answer(result, error) ==
        /\ resp' = Respond(id, op, actor, result, [sr |-> srID, error |-> error])
        /\ UNCHANGED calls
  IN IF fail THEN answer("ServerError", "Server error")
     ELSE IF ~( /\ Exists(srs, srID)
                /\ srs[srID].customer = userID
                /\ srs[srID].status = ServiceStatusCompleted )
     THEN answer("NotFound", "not found, doesn't belong to you, or is not completed")
     ELSE /\ calls' = calls \cup
               {[id |-> id, op |-> op, pc |-> "write", actor |-> actor,
                 userID |-> userID, sr |-> srID, req |-> req, row |-> srs[srID]]}
          /\ UNCHANGED resp

SubmitServiceFeedbackNewStart(actor, srID, req, fail) ==
  /\ CanStart
  /\ nops' = nops + 1
  /\ IF ~ValidRating(req.rating) \/ req.feedback = ""
     THEN /\ resp' = Respond(nops + 1, "SubmitServiceFeedbackNew", actor,
                             "ValidationError", [sr |-> srID, error |-> "binding"])
          /\ UNCHANGED calls
     ELSE FeedbackStart("SubmitServiceFeedbackNew", actor, actor, srID, req, fail)
  /\ UNCHANGED <<orders, payments, subs, notifs, srs, now, workers, products>>

SubmitServiceFeedbackStart(actor, srID, req, fail) ==
  /\ CanStart
  /\ nops' = nops + 1
  /\ IF ~ValidRating(req.rating) \/ req.feedback = ""
     THEN /\ resp' = Respond(nops + 1, "SubmitServiceFeedback", actor,
                             "ValidationError", [sr |-> srID, error |-> "binding"])
          /\ UNCHANGED calls
     ELSE IF ~userIDInt(actor).ok
     THEN /\ resp' = Respond(nops + 1, "SubmitServiceFeedback", actor,
                             "ValidationError",
                             [sr |-> srID, error |-> "Invalid user ID"])
          /\ UNCHANGED calls
     ELSE FeedbackStart("SubmitServiceFeedback", actor, userIDInt(actor).value,
                        srID, req, fail)
  /\ UNCHANGED <<orders, payments, subs, notifs, srs, now, workers, products>>

FeedbackFailures(c) ==
  {"none", "update", "commit"}
    \cup (IF c.row.agent # 0 THEN {"agentNotification"} ELSE {})

\* tx.Model(&serviceRequest).Updates({rating, feedback})
SubmitServiceFeedbackTx(D, c, fail) ==
  IF fail # "none" THEN D
  ELSE [srs |-> [D.srs EXCEPT ![c.sr].rating = c.req.rating,
                              ![c.sr].feedback = c.req.feedback],
        notifs |->
          IF c.row.agent # 0
          THEN Append(D.notifs,
                      Notification(c.row.agent, "Service Feedback Received",
                                   <<"rating", c.req.rating>>, "service_feedback",
                                   c.sr, "service_request"))
          ELSE D.notifs]

SubmitServiceFeedbackWrite(c, fail) ==
  /\ c \in calls
  /\ c.op \in {"SubmitServiceFeedback", "SubmitServiceFeedbackNew"}
  /\ c.pc = "write"
  /\ fail \in FeedbackFailures(c)
  /\ LET D == SubmitServiceFeedbackTx([srs |-> srs, notifs |-> notifs], c, fail)
     IN /\ srs' = D.srs
        /\ notifs' = D.notifs
  /\ calls' = calls \ {c}
  /\ resp' = Respond(c.id, c.op, c.actor,
                     IF fail = "none" THEN "ok" ELSE "ServerError",
                     [sr |-> c.sr, error |-> fail])
  /\ UNCHANGED <<orders, payments, subs, nops, now, workers, products>>

(***************************************************************************)
(* The service desk: the handlers above on a database in which customer 4  *)
(* holds the active subscription of an approved order.                     *)
(***************************************************************************)
ServiceCustomers == {4, 5}

ServiceSubscriptions == {1, 2}

ServiceRequestIDs == 1..MaxRequests

UpdateServiceActors == {1, 2, 3, 4, 5, 6}

NoChange ==
  [status |-> "", agent |-> 0, scheduledDate |-> "", completionDate |-> "",
   notes |-> ""]

UpdateServiceRequests ==
  { [NoChange EXCEPT !.agent = 6],
    [NoChange EXCEPT !.agent = 4],
    [NoChange EXCEPT !.status = ServiceStatusInProgress],
    [NoChange EXCEPT !.status = ServiceStatusCompleted,
                     !.completionDate = "2006-02-03T10:00:00Z", !.notes = "done"],
    [NoChange EXCEPT !.status = ServiceStatusCancelled, !.notes = "no longer needed"],
    [NoChange EXCEPT !.status = ServiceStatusCancelled, !.agent = 6],
    [NoChange EXCEPT !.agent = 7, !.scheduledDate = "2006-02-01T10:00:00Z"],
    [NoChange EXCEPT !.scheduledDate = "tomorrow"],
    NoChange }

FeedbackRequests ==
  { [rating |-> 5, feedback |-> "good"], [rating |-> 0, feedback |-> "good"] }

DoCreateServiceRequestNew ==
  \E actor \in ServiceCustomers, s \in ServiceSubscriptions,
     fail \in {"none", "request", "notification", "ownerNotification", "commit"} :
    CreateServiceRequestNew(actor, s, fail)

DoCreateServiceRequest ==
  \E actor \in ServiceCustomers, s \in ServiceSubscriptions :
    CreateServiceRequest(actor, s, "none")

UpdateServiceRequestNew ==
  \/ \E actor \in UpdateServiceActors, sr \in ServiceRequestIDs,
        req \in UpdateServiceRequests, fail \in BOOLEAN :
       UpdateServiceRequestNewStart(actor, sr, req, fail)
  \/ \E c \in calls, fail \in BOOLEAN : UpdateServiceRequestPluck(c, fail)
  \/ \E c \in calls,
        fail \in {"none", "update", "reload", "statusNotification",
                  "agentNotification", "assignmentNotification",
                  "scheduleNotification", "commit"} :
       UpdateServiceRequestWrite(c, fail)

UpdateServiceRequest ==
  \E actor \in UpdateServiceActors, sr \in ServiceRequestIDs,
     req \in UpdateServiceRequests :
    UpdateServiceRequestStart(actor, sr, req, FALSE)

CancelServiceRequestNew ==
  \/ \E actor \in ServiceCustomers, sr \in ServiceRequestIDs, fail \in BOOLEAN :
       CancelServiceRequestNewStart(actor, sr, fail)
  \/ \E c \in calls,
        fail \in {"none", "update", "notification", "agentNotification", "commit"} :
       CancelServiceRequestWrite(c, fail)

CancelServiceRequest ==
  \E actor \in ServiceCustomers, sr \in ServiceRequestIDs :
    CancelServiceRequestStart(actor, sr, FALSE)

SubmitServiceFeedbackNew ==
  \/ \E actor \in ServiceCustomers, sr \in ServiceRequestIDs,
        req \in FeedbackRequests, fail \in BOOLEAN :
       SubmitServiceFeedbackNewStart(actor, sr, req, fail)
  \/ \E c \in calls, fail \in {"none", "update", "agentNotification", "commit"} :
       SubmitServiceFeedbackWrite(c, fail)

SubmitServiceFeedback ==
  \E actor \in ServiceCustomers, sr \in ServiceRequestIDs, req \in FeedbackRequests :
    SubmitServiceFeedbackStart(actor, sr, req, FALSE)

NextService ==
  \/ DoCreateServiceRequestNew
  \/ DoCreateServiceRequest
  \/ UpdateServiceRequestNew
  \/ UpdateServiceRequest
  \/ CancelServiceRequestNew
  \/ CancelServiceRequest
  \/ SubmitServiceFeedbackNew
  \/ SubmitServiceFeedback

\* customer 4 ordered product 1 from franchise 1 and an admin approved it
SeedOrderRequest ==
  [productID |-> 1, franchiseID |-> 1, rentalDuration |-> 2, notes |-> <<>>]

SeedOrder == NewOrder(4, SeedOrderRequest, Products[1], StartDay)

SeedApproval ==
  [order |-> 1, customerID |-> 4, productID |-> 1, franchiseID |-> 1,
   currentStatus |-> OrderStatusPending, row |-> SeedOrder,
   req |-> [status |-> OrderStatusApproved, agent |-> 6, notes |-> <<"n">>]]

SeedTables ==
  UpdateOrderStatusTx(
    [orders |-> <<SeedOrder>>, subs |-> <<>>,
     notifs |-> <<Notification(4, "Order Placed Successfully", "pending approval",
                               "order", 1, "order")>>],
    SeedApproval, "none", StartDay)

InitService ==
  /\ orders = SeedTables.orders
  /\ payments = <<InitialPayment(4, 1, SeedOrder.total, StartDay)>>
  /\ subs = SeedTables.subs
  /\ notifs = SeedTables.notifs
  /\ srs = <<>>
  /\ calls = {}
  /\ resp = NoResp
  /\ nops = 0
  /\ now = StartDay
  /\ workers = MaxOps
  /\ products = Products

SpecService == InitService /\ [][NextService]_vars

InitServiceSeq ==
  /\ orders = SeedTables.orders
  /\ payments = <<InitialPayment(4, 1, SeedOrder.total, StartDay)>>
  /\ subs = SeedTables.subs
  /\ notifs = SeedTables.notifs
  /\ srs = <<>>
  /\ calls = {}
  /\ resp = NoResp
  /\ nops = 0
  /\ now = StartDay
  /\ workers = 1
  /\ products = Products

SpecServiceSeq == InitServiceSeq /\ [][NextService]_vars

(***************************************************************************)
(* subscription_controller.go                                              *)
(***************************************************************************)
\* SubscriptionUpdateRequest: auto_renew is a *bool, "nil" when absent
SubscriptionUpdateRequests ==
  {[status |-> SubscriptionStatusPaused, autoRenew |-> "nil",
    pauseEndDate |-> "2006-02-03T10:00:00Z"],
   [status |-> SubscriptionStatusPaused, autoRenew |-> "nil",
    pauseEndDate |-> "2006-01-02T10:00:00Z"],
   [status |-> SubscriptionStatusPaused, autoRenew |-> "nil", pauseEndDate |-> ""],
   [status |-> SubscriptionStatusPaused, autoRenew |-> "nil",
    pauseEndDate |-> "tomorrow"],
   [status |-> SubscriptionStatusActive, autoRenew |-> "nil", pauseEndDate |-> ""],
   \* the status is a free string of the body
   [status |-> "pending", autoRenew |-> "nil", pauseEndDate |-> ""],
   [status |-> "", autoRenew |-> "true", pauseEndDate |-> ""],
   [status |-> "", autoRenew |-> "nil", pauseEndDate |-> ""]}

\* the lookup by role: any row for an admin, a row of an owned franchise for a
\* franchise owner, an own row for a customer
FindSubscription(role, userID, subID) ==
  /\ Exists(subs, subID)
  /\ CASE role = RoleAdmin -> TRUE
       [] role = RoleFranchiseOwner ->
            /\ subs[subID].franchise \in DOMAIN Franchises
            /\ Franchises[subs[subID].franchise].owner = userID
       [] role = RoleCustomer -> subs[subID].customer = userID
       [] OTHER -> FALSE

\* the updates map the handler builds from the request at time t: only an
\* admin or a franchise owner sets the status, a pause adds
\* pauseEndDate - now to end_date, a resume is left empty
SubscriptionUpdates(role, sub, req, t) ==
  LET setsStatus == req.status # "" /\ role \in {RoleAdmin, RoleFranchiseOwner}
      pausing == setsStatus /\ req.status = SubscriptionStatusPaused
      pauseEndDate == ParseRFC3339(req.pauseEndDate)
  IN  [error |-> IF pausing /\ req.pauseEndDate = ""
                   THEN "Pause end date is required when pausing a subscription"
                 ELSE IF pausing /\ ~pauseEndDate.ok
                   THEN "Invalid pause end date format"
                 ELSE IF ~setsStatus /\ req.autoRenew = "nil"
                   THEN "No valid updates provided"
                 ELSE "none",
       endDate |-> IF pausing /\ pauseEndDate.ok
                     THEN sub.endDate + (pauseEndDate.t - t)
                     ELSE sub.endDate,
       status |-> IF setsStatus THEN req.status ELSE sub.status,
       \* subscriptions has no auto_renew column
       autoRenew |-> req.autoRenew # "nil"]

UpdateSubscriptionResult(actor, subID, req, fail, t) ==
  LET userIDUint == userIDInt(actor)
      role == Users[actor].role
  IN  IF ~userIDUint.ok THEN "ValidationError"
      ELSE IF role \notin {RoleAdmin, RoleFranchiseOwner, RoleCustomer}
        THEN "PermissionDenied"
      ELSE IF fail = "find" THEN "ServerError"
      ELSE IF ~FindSubscription(role, userIDUint.value, subID) THEN "NotFound"
      ELSE IF fail = "begin" THEN "ServerError"
      ELSE IF SubscriptionUpdates(role, subs[subID], req, t).error # "none"
        THEN "ValidationError"
      ELSE IF SubscriptionUpdates(role, subs[subID], req, t).autoRenew
        THEN "ServerError"
      ELSE IF fail # "none" THEN "ServerError"
      ELSE "ok"

\* PUT /subscriptions/:id
UpdateSubscription(actor, subID, req, fail) ==
  /\ CanStart
  /\ nops' = nops + 1
  /\ LET result == UpdateSubscriptionResult(actor, subID, req, fail, now)
     IN  /\ resp' = Respond(nops + 1, "UpdateSubscription", actor, result,
                            [sub |-> subID, req |-> req])
         /\ IF result = "ok"
            THEN LET updates == SubscriptionUpdates(Users[actor].role, subs[subID],
                                                    req, now)
                 IN  /\ subs' = [subs EXCEPT ![subID].endDate = updates.endDate,
                                             ![subID].status = updates.status]
                     /\ notifs' = Append(notifs,
                          Notification(subs[subID].customer, "Subscription Updated",
                                       req.status, "subscription", subID,
                                       "subscription"))
            ELSE UNCHANGED <<subs, notifs>>
  /\ UNCHANGED <<orders, payments, srs, calls, now, workers, products>>

DoUpdateSubscription ==
  \E actor \in {1, 2, 3, 4}, s \in {1, 2}, req \in SubscriptionUpdateRequests,
     fail \in {"none", "find", "begin", "update", "notification", "commit"} :
    UpdateSubscription(actor, s, req, fail)

NextSubscription ==
  \/ Tick
  \/ DoUpdateSubscription

SpecSubscription == InitService /\ [][NextSubscription]_vars

\* the monthly rent of the subscription of customer 4 is asked for and paid
NextMonthly ==
  \/ Tick
  \/ GenerateMonthlyPayment
  \/ VerifyPayment

SpecMonthly == InitService /\ [][NextMonthly]_vars

(***************************************************************************)
(* Properties of the order and payment lifecycle.                          *)
(***************************************************************************)
InitialPaymentsOf(P, o) ==
  {i \in DOMAIN P : P[i].order = o /\ P[i].ptype = "initial"}

\* C1: an order is approved if and only if exactly one subscription row
\* references it.
C1_ApprovedIffOneSubscription ==
  \A o \in DOMAIN orders :
    (orders[o].status = OrderStatusApproved)
      <=> (Cardinality(SubsOfOrder(subs, o)) = 1)

\* C2: an UpdateStatus(approved) request made on a pending order without a
\* subscription leaves, when it is answered, at most one subscription on the
\* order, whatever other approval overlapped with it, and exactly one when it
\* succeeded.
C2_ConcurrentApprovalsOneSubscription ==
  [][\A c \in calls :
       ( /\ Answered(c)
         /\ c.op = "UpdateOrderStatus"
         /\ c.req.status = OrderStatusApproved
         /\ c.currentStatus = OrderStatusPending
         /\ c.subsBefore = 0 )
       => /\ Cardinality(SubsOfOrder(subs', c.order)) <= 1
          /\ resp'.result = "ok" => Cardinality(SubsOfOrder(subs', c.order)) = 1
    ]_vars

\* C3: right after the commit of a successful Verify of an initial payment the
\* payment is success, the order is approved and a subscription of the order
\* exists whose end_date is start_date plus rental_duration months.
C3_VerifyInitialHandsOff ==
  [][\A c \in calls :
       ( /\ Answered(c)
         /\ c.op = "VerifyPayment"
         /\ c.paymentType = "initial"
         /\ resp'.result = "ok" )
       => /\ \A i \in InitialPaymentsOf(payments', c.order) :
               payments'[i].status = PaymentStatusSuccess
          /\ orders'[c.order].status = OrderStatusApproved
          /\ \E i \in SubsOfOrder(subs', c.order) :
               subs'[i].endDate =
                 AddDate(subs'[i].startDate, 0, orders'[c.order].rentalDuration, 0)
    ]_vars

\* C4: an order whose initial payment is success is not pending.
C4_PaidOrderNotPending ==
  \A o \in DOMAIN orders :
    (\E i \in InitialPaymentsOf(payments, o) :
       payments[i].status = PaymentStatusSuccess)
      => orders[o].status # OrderStatusPending

\* C5: a Verify request of a customer whose signature is not the HMAC of
\* gatewayOrderRef|gatewayPaymentRef under the shared secret is answered
\* InvalidSignature, and orders, payments, subscriptions and notifications are
\* as they were.
C5_TamperedSignatureRejected ==
  [][( /\ resp'.id # resp.id
       /\ resp'.op = "VerifyPayment"
       /\ Users[resp'.actor].role = RoleCustomer
       /\ resp'.req.signature #
            hmacSHA256(RazorpaySecret,
                       <<resp'.req.orderRef, "|", resp'.req.paymentID>>) )
     => /\ resp'.result = "InvalidSignature"
        /\ UNCHANGED <<orders, payments, subs, notifs>>
    ]_vars

\* a tampered Verify aimed at a pending order with its pending payment was
\* answered InvalidSignature
C5_Witness ==
  /\ resp.op = "VerifyPayment"
  /\ resp.result = "InvalidSignature"
  /\ resp.req.signature #
       hmacSHA256(RazorpaySecret, <<resp.req.orderRef, "|", resp.req.paymentID>>)
  /\ Exists(orders, resp.req.aquaOrder)
  /\ orders[resp.req.aquaOrder].status = OrderStatusPending
  /\ PendingInitialPayments(payments, resp.req.aquaOrder) # {}

\* C6: an UpdateStatus request that fails at or after the status write (save,
\* subscription insert, rental_start_date update, notification insert or
\* commit) leaves orders, subscriptions and notifications exactly as they were.
C6_UpdateStatusAllOrNothing ==
  [][\A c \in calls :
       ( /\ Answered(c)
         /\ c.op = "UpdateOrderStatus"
         /\ resp'.result # "ok" )
       => UNCHANGED <<orders, payments, subs, notifs>>
    ]_vars

\* an approval failed at the notification insert, after the status write and
\* the subscription insert, and the order is still pending without subscription
C6_Witness ==
  /\ resp.op = "UpdateOrderStatus"
  /\ resp.result = "ServerError"
  /\ resp.error = "notification"
  /\ orders[resp.order].status = OrderStatusPending
  /\ SubsOfOrder(subs, resp.order) = {}

\* C7: requests served one after another never make more than one
\* subscription reference one order.
C7_AtMostOneSubscriptionPerOrder ==
  \A o \in DOMAIN orders : Cardinality(SubsOfOrder(subs, o)) <= 1

\* C8: a successful Verify commits exactly one notification for the customer
\* together with the settlement; a Verify that fails, at the notification
\* insert or elsewhere, leaves payments, orders and subscriptions as they were.
C8_VerifyNotificationAtomic ==
  [][\A c \in calls :
       (Answered(c) /\ c.op = "VerifyPayment")
       => IF resp'.result = "ok"
          THEN /\ Len(notifs') = Len(notifs) + 1
               /\ notifs'[Len(notifs')].user = c.actor
               /\ notifs'[Len(notifs')].title = "Payment Successful"
               /\ \E i \in DOMAIN payments' :
                    /\ payments'[i].status = PaymentStatusSuccess
                    /\ payments'[i].txn = c.req.paymentID
                    /\ IF c.paymentType = "initial"
                       THEN payments'[i].order = c.order
                       ELSE payments'[i].sub = c.req.subID
          ELSE UNCHANGED <<orders, payments, subs, notifs>>
    ]_vars

\* a monthly Verify succeeded and its notification is the last row
C8_Witness ==
  /\ resp.op = "VerifyPayment"
  /\ resp.result = "ok"
  /\ resp.req.subID # 0
  /\ notifs # <<>>
  /\ notifs[Len(notifs)].title = "Payment Successful"
  /\ notifs[Len(notifs)].user = resp.actor

(***************************************************************************)
(* Properties of service requests.                                         *)
(***************************************************************************)
CancelOps == {"CancelServiceRequest", "CancelServiceRequestNew"}

\* a Cancel of request sr by actor arrives in this step and the database
\* answers its lookup
CancelArrives(actor, sr) ==
  /\ nops' = nops + 1
  /\ \/ /\ resp'.id = nops'
        /\ resp'.op \in CancelOps
        /\ resp'.actor = actor
        /\ resp'.sr = sr
        /\ resp'.result # "ServerError"
     \/ \E c \in calls' \ calls :
          c.op \in CancelOps /\ c.actor = actor /\ c.sr = sr

\* C9: a service request with a rating is completed.
C9_RatingOnlyWhenCompleted ==
  \A i \in DOMAIN srs :
    srs[i].rating # 0 => srs[i].status = ServiceStatusCompleted

\* C10: a customer's Cancel of their own request whose stored status is
\* in_progress, completed or cancelled is answered InvalidState and changes
\* neither service requests nor notifications; a Cancel that succeeds found
\* the request pending, assigned or scheduled and leaves it cancelled.
C10_CancelOnlyFromOpenStates ==
  [][ /\ \A actor \in ServiceCustomers, sr \in DOMAIN srs :
           ( /\ srs[sr].customer = actor
             /\ srs[sr].status \in {ServiceStatusInProgress, ServiceStatusCompleted,
                                    ServiceStatusCancelled}
             /\ CancelArrives(actor, sr) )
           => /\ resp'.id = nops'
              /\ resp'.result = "InvalidState"
              /\ UNCHANGED <<srs, notifs>>
      /\ \A c \in calls :
           (Answered(c) /\ c.op \in CancelOps /\ resp'.result = "ok")
           => /\ c.row.status \in {ServiceStatusPending, ServiceStatusAssigned,
                                   ServiceStatusScheduled}
              /\ srs'[c.sr].status = ServiceStatusCancelled
    ]_vars

\* an Update of request sr by actor, through the handler the router mounts
\* on PUT /services/:id, arrives in this step and the database answers its
\* permission query
UpdateArrives(actor, sr) ==
  /\ nops' = nops + 1
  /\ \/ /\ resp'.id = nops'
        /\ resp'.op = "UpdateServiceRequestNew"
        /\ resp'.actor = actor
        /\ resp'.sr = sr
        /\ resp'.result # "ServerError"
     \/ \E c \in calls' \ calls :
          c.op = "UpdateServiceRequestNew" /\ c.actor = actor /\ c.sr = sr

\* the franchise of the subscription of request sr is owned by actor
OwnsFranchiseOfRequest(actor, sr) ==
  /\ srs[sr].sub \in DOMAIN subs
  /\ subs[srs[sr].sub].franchise \in DOMAIN Franchises
  /\ Franchises[subs[srs[sr].sub].franchise].owner = actor

\* C11: an Update of a service request by a franchise owner who does not own
\* the franchise of the request's subscription is answered PermissionDenied
\* and leaves the service requests (status, agent, schedule, notes) and the
\* notifications as they were.
C11_ForeignFranchiseOwnerDenied ==
  [][\A actor \in UpdateServiceActors, sr \in DOMAIN srs :
       ( /\ Users[actor].role = RoleFranchiseOwner
         /\ ~OwnsFranchiseOfRequest(actor, sr)
         /\ UpdateArrives(actor, sr) )
       => /\ resp'.id = nops'
          /\ resp'.result = "PermissionDenied"
          /\ UNCHANGED <<srs, notifs>>
    ]_vars

\* the owner of another franchise asked to update an existing request and was
\* denied
C11_Witness ==
  /\ resp.op = "UpdateServiceRequestNew"
  /\ resp.result = "PermissionDenied"
  /\ Users[resp.actor].role = RoleFranchiseOwner
  /\ resp.sr \in DOMAIN srs
  /\ ~OwnsFranchiseOfRequest(resp.actor, resp.sr)

\* C12: a Pause of an active subscription with end_date E, issued at time t
\* with a well-formed pauseEndDate p, leaves it paused with end_date
\* E + (p - t); a Resume of a paused subscription makes it active and leaves
\* end_date as it was, so that the two together yield E + (p - t).  The
\* requests are those of an admin or of the owner of the subscription's
\* franchise that the database answers.
C12_PauseResumeExtendsByPauseInterval ==
  [][\A s \in DOMAIN subs :
       ( /\ resp'.id # resp.id
         /\ resp'.op = "UpdateSubscription"
         /\ resp'.sub = s
         /\ resp'.result # "ServerError"
         /\ \/ Users[resp'.actor].role = RoleAdmin
            \/ /\ Users[resp'.actor].role = RoleFranchiseOwner
               /\ Franchises[subs[s].franchise].owner = resp'.actor )
       => /\ ( /\ resp'.req.status = SubscriptionStatusPaused
               /\ ParseRFC3339(resp'.req.pauseEndDate).ok
               /\ subs[s].status = SubscriptionStatusActive )
             => /\ subs'[s].status = SubscriptionStatusPaused
                /\ subs'[s].endDate =
                     subs[s].endDate + (ParseRFC3339(resp'.req.pauseEndDate).t - now)
          /\ ( /\ resp'.req.status = SubscriptionStatusActive
               /\ subs[s].status = SubscriptionStatusPaused )
             => /\ subs'[s].status = SubscriptionStatusActive
                /\ subs'[s].endDate = subs[s].endDate
    ]_vars

C14_NextBillingNeverDecreases ==
  [][\A c \in calls :
       ( /\ Answered(c)
         /\ c.op = "VerifyPayment"
         /\ c.paymentType = "monthly"
         /\ resp'.result = "ok" )
       => subs'[c.req.subID].nextBilling >= subs[c.req.subID].nextBilling
    ]_vars

\* C15: a successful monthly Verify stores the next_billing_date that is
\* exactly one month after the one stored before the call.
C15_NextBillingAdvancesOneMonth ==
  [][\A c \in calls :
       ( /\ Answered(c)
         /\ c.op = "VerifyPayment"
         /\ c.paymentType = "monthly"
         /\ resp'.result = "ok" )
       => subs'[c.req.subID].nextBilling =
            AddDate(subs[c.req.subID].nextBilling, 0, 1, 0)
    ]_vars

\* C16: the total_initial_amount of every order is security_deposit +
\* installation_fee + monthly_rent, these being the prices of its product
\* when CreateOrder read it, and no step (UpdateStatus, AssignFranchise,
\* Verify, a change of the product's prices) changes one of the four
\* monetary fields of an order.
C16_OrderMoneyFixedAtCreation ==
  /\ [](\A o \in DOMAIN orders :
          orders[o].total = orders[o].securityDeposit + orders[o].installationFee
                              + orders[o].monthlyRent)
  /\ [][ /\ \A o \in DOMAIN orders :
              /\ o \in DOMAIN orders'
              /\ orders'[o].monthlyRent = orders[o].monthlyRent
              /\ orders'[o].securityDeposit = orders[o].securityDeposit
              /\ orders'[o].installationFee = orders[o].installationFee
              /\ orders'[o].total = orders[o].total
         /\ \A o \in DOMAIN orders' \ DOMAIN orders :
              /\ orders'[o].monthlyRent = products[orders'[o].product].monthlyRent
              /\ orders'[o].securityDeposit =
                   products[orders'[o].product].securityDeposit
              /\ orders'[o].installationFee =
                   products[orders'[o].product].installationFee
       ]_vars

\* the prices of the product of an order changed after the order was placed,
\* and the order was approved after that
C16_Witness ==
  \E o \in DOMAIN orders :
    /\ orders[o].monthlyRent # products[orders[o].product].monthlyRent
    /\ orders[o].status = OrderStatusApproved
    /\ resp.op \in {"UpdateOrderStatus", "VerifyPayment"}
    /\ resp.result = "ok"

\* C17: every payment references exactly one owner: an initial payment its
\* order and no subscription, a monthly payment its subscription and no order.
C17_PaymentHasOneOwner ==
  \A i \in DOMAIN payments :
    /\ payments[i].ptype = "initial" =>
         (payments[i].order # 0 /\ payments[i].sub = 0)
    /\ payments[i].ptype = "monthly" =>
         (payments[i].sub # 0 /\ payments[i].order = 0)

\* C18: no two payments share an invoice number.
C18_InvoiceNumbersUnique ==
  \A i, j \in DOMAIN payments :
    i # j => payments[i].invoice # payments[j].invoice

\* C19: every order has exactly one initial payment, in every state from its
\* creation on, and while the order is not cancelled and that payment has not
\* become success the payment is pending: no operation adds a second initial
\* payment or removes the row.
C19_OnePendingInitialPayment ==
  \A o \in DOMAIN orders :
    /\ Cardinality(InitialPaymentsOf(payments, o)) = 1
    /\ ( /\ orders[o].status # OrderStatusCancelled
         /\ \A i \in InitialPaymentsOf(payments, o) :
              payments[i].status # PaymentStatusSuccess )
       => Cardinality(PendingInitialPayments(payments, o)) = 1

\* GeneratePaymentOrder has written the gateway order of a pending order into
\* its pending initial payment
C19_Witness ==
  /\ resp.op = "GeneratePaymentOrder"
  /\ resp.result = "ok"
  /\ Exists(orders, resp.order)
  /\ orders[resp.order].status = OrderStatusPending
  /\ \E i \in PendingInitialPayments(payments, resp.order) : payments[i].txn # ""

\* C20: every committed change of the status of an order follows the
\* transition table pending -> {approved, rejected, cancelled}, approved ->
\* {in_transit, delivered, installed, completed}, non-terminal -> cancelled;
\* an order that is rejected, cancelled or completed never changes its status
\* again.
C20_OrderStatusFollowsTable ==
  [][LET Terminal == {OrderStatusRejected, OrderStatusCancelled,
                      OrderStatusCompleted}
         Allowed(from, to) ==
           \/ /\ from = OrderStatusPending
              /\ to \in {OrderStatusApproved, OrderStatusRejected,
                         OrderStatusCancelled}
           \/ /\ from = OrderStatusApproved
              /\ to \in {OrderStatusInTransit, OrderStatusDelivered,
                         OrderStatusInstalled, OrderStatusCompleted}
           \/ /\ from \notin Terminal
              /\ to = OrderStatusCancelled
     IN  \A o \in DOMAIN orders :
           orders'[o].status # orders[o].status
           => Allowed(orders[o].status, orders'[o].status)
    ]_vars

\* C21: every committed change of the status of a service request is an edge
\* of pending -> assigned -> scheduled -> in_progress -> completed or of
\* {pending, assigned, scheduled} -> cancelled; a completed or cancelled
\* request never changes its status again.
C21_ServiceStatusFollowsTable ==
  [][LET Allowed(from, to) ==
           \/ from = ServiceStatusPending /\ to = ServiceStatusAssigned
           \/ from = ServiceStatusAssigned /\ to = ServiceStatusScheduled
           \/ from = ServiceStatusScheduled /\ to = ServiceStatusInProgress
           \/ from = ServiceStatusInProgress /\ to = ServiceStatusCompleted
           \/ /\ from \in {ServiceStatusPending, ServiceStatusAssigned,
                           ServiceStatusScheduled}
              /\ to = ServiceStatusCancelled
     IN  \A i \in DOMAIN srs :
           srs'[i].status # srs[i].status
           => Allowed(srs[i].status, srs'[i].status)
    ]_vars

C24_UpdateStatusPermission ==
  [][\A actor \in UpdateStatusActors, o \in DOMAIN orders :
       LET permitted ==
             \/ Users[actor].role = RoleAdmin
             \/ /\ Users[actor].role = RoleFranchiseOwner
                /\ orders[o].franchise \in DOMAIN Franchises
                /\ Franchises[orders[o].franchise].owner = actor
           answered == /\ resp'.id # resp.id
                       /\ resp'.op = "UpdateOrderStatus"
                       /\ resp'.actor = actor
                       /\ resp'.order = o
       IN  /\ (answered /\ nops' = nops + 1 /\ ~permitted)
              => /\ resp'.result = "PermissionDenied"
                 /\ UNCHANGED <<orders, subs, notifs>>
           /\ (answered /\ resp'.result = "ok") => permitted
    ]_vars

\* C25: a Verify of an initial payment by a customer with a valid signature,
\* aimed at an order that is not the caller's or is no longer pending, fails
\* at once and leaves orders, payments, subscriptions and notifications as
\* they were; so does a second Verify made after a first one on the same
\* order has committed.
C25_VerifyRejectsForeignOrSettledOrder ==
  [][\A actor \in PaymentActors, req \in VerifyRequests :
       ( /\ Users[actor].role = RoleCustomer
         /\ req.subID = 0
         /\ req.signature =
              hmacSHA256(RazorpaySecret, <<req.orderRef, "|", req.paymentID>>)
         /\ req.aquaOrder \in DOMAIN orders
         /\ \/ orders[req.aquaOrder].customer # actor
            \/ orders[req.aquaOrder].status # OrderStatusPending
         /\ nops' = nops + 1
         /\ \/ /\ resp'.id = nops'
               /\ resp'.op = "VerifyPayment"
               /\ resp'.actor = actor
               /\ resp'.req = req
            \/ \E c \in calls' \ calls :
                 c.op = "VerifyPayment" /\ c.actor = actor /\ c.req = req )
       => /\ resp'.id = nops'
          /\ resp'.result \notin {"ok", "none"}
          /\ UNCHANGED <<orders, payments, subs, notifs>>
    ]_vars

\* the second Verify of an order whose first Verify has committed was refused
C25_Witness ==
  /\ resp.op = "VerifyPayment"
  /\ resp.result = "Conflict"
  /\ resp.req.subID = 0
  /\ resp.req.signature =
       hmacSHA256(RazorpaySecret, <<resp.req.orderRef, "|", resp.req.paymentID>>)
  /\ orders[resp.req.aquaOrder].customer = resp.actor
  /\ orders[resp.req.aquaOrder].status = OrderStatusApproved
  /\ \A i \in InitialPaymentsOf(payments, resp.req.aquaOrder) :
       payments[i].status = PaymentStatusSuccess

C27_AssignChangesOnlyFranchise ==
  [][\A c \in calls :
       (Answered(c) /\ c.op = "AssignOrderToFranchise")
       => /\ orders' \in {orders,
                          [orders EXCEPT ![c.order].franchise = c.req.franchiseID]}
          /\ UNCHANGED <<payments, subs, notifs>>
    ]_vars

C29_AssignedAgentIsValid ==
  /\ [](\A i \in DOMAIN srs :
          srs[i].agent # 0 => Users[srs[i].agent].role = RoleServiceAgent)
  /\ [][LET UpdateOps == {"UpdateServiceRequest", "UpdateServiceRequestNew"}
            Assigns(c) ==
              /\ c.op \in UpdateOps
              /\ c.req.agent # 0
              /\ Users[c.actor].role \in {RoleAdmin, RoleFranchiseOwner}
        IN  /\ \A c \in calls' \ calls :
                 Assigns(c)
                 => /\ c.req.agent \in DOMAIN Users
                    /\ Users[c.req.agent].role = RoleServiceAgent
                    /\ Users[c.actor].role = RoleFranchiseOwner
                         => Franchises[Users[c.req.agent].franchise].owner = c.actor
            /\ \A c \in calls :
                 (Answered(c) /\ Assigns(c) /\ resp'.result = "ok")
                 => srs'[c.sr].agent = c.req.agent
            /\ (resp'.id # resp.id /\ resp'.op \in UpdateOps /\ resp'.result # "ok")
               => UNCHANGED srs
       ]_vars

\* a franchise owner assigned an agent of an own franchise to a pending
\* request, which is assigned now
C29_Witness ==
  /\ resp.op = "UpdateServiceRequestNew"
  /\ resp.result = "ok"
  /\ Users[resp.actor].role = RoleFranchiseOwner
  /\ srs[resp.sr].agent = 6
  /\ srs[resp.sr].status = ServiceStatusAssigned

\* C30: a CreateServiceRequest of a customer for an own, active subscription
\* that the database serves inserts together one pending request, the
\* customer notification and, when the franchise has an owner, the
\* notification of that owner; for any other subscription it is answered
\* NotFound or InvalidState; a call that fails inserts neither a request nor
\* a notification.
C30_CreateServiceRequestGuarded ==
  [][\A actor \in ServiceCustomers, s \in ServiceSubscriptions :
       ( /\ resp'.id # resp.id
         /\ resp'.op \in {"CreateServiceRequest", "CreateServiceRequestNew"}
         /\ resp'.actor = actor
         /\ resp'.sub = s )
       => IF resp'.result = "ServerError" THEN UNCHANGED <<srs, notifs>>
          ELSE IF /\ s \in DOMAIN subs
                  /\ subs[s].customer = actor
                  /\ subs[s].status = SubscriptionStatusActive
          THEN /\ resp'.result = "ok"
               /\ Len(srs') = Len(srs) + 1
               /\ SubSeq(srs', 1, Len(srs)) = srs
               /\ srs'[Len(srs')].status = ServiceStatusPending
               /\ srs'[Len(srs')].customer = actor
               /\ srs'[Len(srs')].sub = s
               /\ Len(notifs') =
                    Len(notifs) + (IF Franchises[subs[s].franchise].owner # 0
                                   THEN 2 ELSE 1)
               /\ SubSeq(notifs', 1, Len(notifs)) = notifs
               /\ notifs'[Len(notifs) + 1].user = actor
               /\ Franchises[subs[s].franchise].owner # 0
                    => notifs'[Len(notifs')].user = Franchises[subs[s].franchise].owner
          ELSE /\ resp'.result \in {"NotFound", "InvalidState"}
               /\ UNCHANGED <<srs, notifs>>
    ]_vars

\* C31: the subscription the approval of an order creates at time t is active,
\* starts at t, ends rental_duration months after t, is billed next one month
\* after t, is maintained next three months after t and carries the order's
\* monthly rent; the same step sets the order's rental_start_date to t.
C31_HandoffSubscriptionFields ==
  [][subs' # subs =>
       /\ Len(subs') = Len(subs) + 1
       /\ \A i \in DOMAIN subs : subs'[i] = subs[i]
       /\ LET s == subs'[Len(subs')]
              t == now
          IN /\ resp'.op = "UpdateOrderStatus"
             /\ resp'.order = s.order
             /\ s.status = SubscriptionStatusActive
             /\ s.startDate = t
             /\ s.endDate = AddDate(t, 0, orders[s.order].rentalDuration, 0)
             /\ s.nextBilling = AddDate(t, 0, 1, 0)
             /\ s.nextMaintenance = AddDate(t, 0, 3, 0)
             /\ s.monthlyRent = orders[s.order].monthlyRent
             /\ orders'[s.order].monthlyRent = s.monthlyRent
             /\ orders'[s.order].rentalStart = t
    ]_vars

\* an order was approved the day after the first day: its subscription
\* starts on that day and the order's rental start is the same day
C31_Witness ==
  /\ resp.op = "UpdateOrderStatus"
  /\ resp.result = "ok"
  /\ now = StartDay + 1
  /\ \E i \in DOMAIN subs :
       /\ subs[i].order = resp.order
       /\ subs[i].startDate = StartDay + 1
       /\ subs[i].nextBilling = AddDate(StartDay + 1, 0, 1, 0)
       /\ orders[resp.order].rentalStart = StartDay + 1
       /\ orders[resp.order].status = OrderStatusApproved

\* C32: when an Update by an admin or franchise owner that assigns an agent is
\* written, a request that is pending at that moment becomes assigned with
\* the agent set, and a request that is not pending gets the agent and keeps
\* its status unless the call itself names a status.
C32_PromotionUsesStatusAtWrite ==
  [][\A c \in calls :
       ( /\ Answered(c)
         /\ c.op \in {"UpdateServiceRequest", "UpdateServiceRequestNew"}
         /\ AssignsAgent(Users[c.actor].role, c.req)
         /\ resp'.result = "ok" )
       => /\ srs'[c.sr].agent = c.req.agent
          /\ srs'[c.sr].status =
               IF srs[c.sr].status = ServiceStatusPending THEN ServiceStatusAssigned
               ELSE IF c.req.status # "" THEN c.req.status
               ELSE srs[c.sr].status
    ]_vars

\* C33: an Update emits the two agent-assignment notifications only if it
\* changed the agent of the request, the schedule notification only if it
\* changed scheduled_time and the status notification only if it changed the
\* status; a field of the body the caller's role may not set emits nothing.
C33_NotificationsFollowChanges ==
  [][\A c \in calls :
       ( /\ Answered(c)
         /\ c.op \in {"UpdateServiceRequest", "UpdateServiceRequestNew"} )
       => LET added == {notifs'[i].title : i \in (DOMAIN notifs') \ (DOMAIN notifs)}
          IN /\ \A i \in DOMAIN notifs : notifs'[i] = notifs[i]
             /\ "Service Agent Assigned" \in added
                  => srs'[c.sr].agent # srs[c.sr].agent
             /\ "New Service Assignment" \in added
                  => srs'[c.sr].agent # srs[c.sr].agent
             /\ "Service Visit Scheduled" \in added
                  => srs'[c.sr].scheduled # srs[c.sr].scheduled
             /\ "Service Request Updated" \in added
                  => srs'[c.sr].status # srs[c.sr].status
    ]_vars

\* C34: a customer's cancellation is written only onto a request that is
\* pending, assigned or scheduled at the moment of the write: once another
\* actor has committed in_progress or completed, no interleaving lets the
\* customer's Cancel end with the request cancelled.
C34_CancelWriteSeesCurrentStatus ==
  [][\A c \in calls :
       ( /\ Answered(c)
         /\ c.op \in CancelOps
         /\ Users[c.actor].role = RoleCustomer
         /\ srs'[c.sr].status = ServiceStatusCancelled )
       => srs[c.sr].status \in {ServiceStatusPending, ServiceStatusAssigned,
                                ServiceStatusScheduled, ServiceStatusCancelled}
    ]_vars

\* C35: of two Verify calls for the initial payment of one order that carry
\* different valid gateway payment references only one succeeds: no Verify
\* succeeds on an order whose initial payment is already success under
\* another reference, and the transaction_id of a success initial payment is
\* never overwritten.
C35_OneInitialVerifySucceeds ==
  [][ /\ \A c \in calls :
           ( /\ Answered(c)
             /\ c.op = "VerifyPayment"
             /\ c.paymentType = "initial"
             /\ resp'.result = "ok" )
           => ~\E i \in DOMAIN payments :
                 /\ payments[i].order = c.order
                 /\ payments[i].ptype = "initial"
                 /\ payments[i].status = PaymentStatusSuccess
                 /\ payments[i].txn # c.req.paymentID
      /\ \A i \in DOMAIN payments :
           (payments[i].ptype = "initial" /\ payments[i].status = PaymentStatusSuccess)
           => payments'[i].txn = payments[i].txn
    ]_vars

\* C36: a subscription never has more than one payment that is monthly and
\* pending, whatever the interleaving of GenerateMonthly and Verify calls.
C36_OnePendingMonthlyPayment ==
  \A s \in DOMAIN subs : Cardinality(PendingMonthlyPayments(payments, s)) <= 1

\* C37: a monthly Verify that repeats a gateway payment already recorded as a
\* success payment of the subscription (the same gateway order, payment and
\* signature) adds no second success payment and leaves next_billing_date
\* as it is.
C37_MonthlyVerifyIdempotent ==
  [][\A c \in calls :
       ( /\ Answered(c)
         /\ c.op = "VerifyPayment"
         /\ c.paymentType = "monthly"
         /\ \E i \in DOMAIN payments :
              /\ payments[i].sub = c.req.subID
              /\ payments[i].ptype = "monthly"
              /\ payments[i].status = PaymentStatusSuccess
              /\ payments[i].details = <<c.req.orderRef, c.req.paymentID>> )
       => /\ subs'[c.req.subID].nextBilling = subs[c.req.subID].nextBilling
          /\ { i \in DOMAIN payments' : payments'[i].status = PaymentStatusSuccess }
               = { i \in DOMAIN payments : payments[i].status = PaymentStatusSuccess }
    ]_vars

\* C38: a Verify of an initial payment settles the order only if the gateway
\* order reference of the request is the one GeneratePaymentOrder stored on
\* the pending initial payment of that order.
C38_VerifyMatchesStoredGatewayOrder ==
  [][\A c \in calls :
       ( /\ Answered(c)
         /\ c.op = "VerifyPayment"
         /\ c.paymentType = "initial"
         /\ resp'.result = "ok" )
       => \E i \in PendingInitialPayments(payments, c.order) :
             payments[i].txn = c.req.orderRef
    ]_vars

C40_SubscriptionMatchesOrder ==
  \A i \in DOMAIN subs :
    /\ Exists(orders, subs[i].order)
    /\ subs[i].customer = orders[subs[i].order].customer
    /\ subs[i].product = orders[subs[i].order].product
    /\ subs[i].franchise = orders[subs[i].order].franchise

====
